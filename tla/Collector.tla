------------------------------ MODULE Collector ------------------------------
(***************************************************************************)
(* Request telemetry (src/zen-proxy-rs/src/collector): tasks hand their    *)
(* records to a bounded queue, a worker writes them into counters, a ring  *)
(* of recent requests and rolling windows.  When the queue is full, the    *)
(* task counts a dropped event and writes the record itself, beside the    *)
(* worker; what is not a request's record is then lost.                    *)
(***************************************************************************)
EXTENDS Integers, Sequences, FiniteSets, FiniteSetsExt

CONSTANTS
  Tasks,     \* request tasks; each hands over one record
  Queue,     \* queue_capacity
  Ring,      \* capacity of the ring buffer
  Windows,   \* max_windows
  Clock,     \* bound: windows that begin during a behaviour
  Notices    \* bound: probe events of a behaviour

Worker == "worker"
Notice == "notice"
Recorders == Tasks \cup {Worker}

CollectorAssumption ==
  /\ IsFiniteSet(Tasks) /\ Tasks \cap {Worker, Notice} = {}
  /\ Queue \in Nat \ {0} /\ Ring \in Nat \ {0}
  /\ {Windows, Clock, Notices} \subseteq Nat

\* The steps of record_request.  The counters are atomics of their own; nothing
\* here reads two of them, and they are one step.
Steps == <<"count", "number", "push", "read", "merge">>
Idle == [item |-> Notice, step |-> 0, held |-> 0]

VARIABLES
  queue,      \* the channel to the worker
  dropped,    \* dropped_events
  doing,      \* what each recorder is writing: the step, the number or time it holds
  total,      \* total_requests
  successes,  \* success_count
  head,       \* the ring's next number
  ring,       \* its entries, the newest last
  open,       \* the open window: its start, and how often each record is in it
  past,       \* the closed ones
  now,        \* time in windows
  notices

collectorVars == <<queue, dropped, doing, total, successes, head, ring, open, past, now, notices>>

Empty == [r \in Tasks |-> 0]

CollectorTypeOK ==
  /\ queue \in Seq(Tasks \cup {Notice}) /\ Len(queue) <= Queue
  /\ doing \in [Recorders -> [item : Tasks \cup {Notice}, step : 0..Len(Steps), held : Nat]]
  /\ {total, successes, head, dropped} \subseteq Nat
  /\ ring \in Seq([seq : Nat, item : Tasks]) /\ Len(ring) <= Ring
  /\ now \in 0..Clock /\ notices \in 0..Notices
  /\ open.start \in 0..Clock /\ Len(past) <= Windows

CollectorInit ==
  /\ queue = <<>> /\ ring = <<>> /\ past = <<>>
  /\ dropped = 0 /\ total = 0 /\ successes = 0 /\ head = 0 /\ now = 0 /\ notices = 0
  /\ doing = [w \in Recorders |-> Idle]
  /\ open = [start |-> 0, rows |-> Empty]

-----------------------------------------------------------------------------
(* AsyncCollector *)

Begin(w, r) == doing' = [doing EXCEPT ![w] = [item |-> r, step |-> 1, held |-> 0]]

HasRoom == Len(queue) < Queue

\* Mutant of Submit: what does not fit is dropped, as for the other events.
SubmitLossy(r) ==
  /\ doing[r].step = 0
  /\ IF HasRoom
     THEN queue' = Append(queue, r) /\ UNCHANGED <<doing, dropped>>
     ELSE dropped' = dropped + 1 /\ UNCHANGED <<queue, doing>>
  /\ UNCHANGED <<total, successes, head, ring, open, past, now, notices>>

\* record_request
Submit(r) ==
  /\ doing[r].step = 0
  /\ IF HasRoom
     THEN queue' = Append(queue, r) /\ UNCHANGED <<doing, dropped>>
     ELSE dropped' = dropped + 1 /\ Begin(r, r) /\ UNCHANGED queue
  /\ UNCHANGED <<total, successes, head, ring, open, past, now, notices>>

\* record_probe, by a task of the pool manager
Notify ==
  /\ notices < Notices
  /\ notices' = notices + 1
  /\ IF HasRoom
     THEN queue' = Append(queue, Notice) /\ UNCHANGED dropped
     ELSE dropped' = dropped + 1 /\ UNCHANGED queue
  /\ UNCHANGED <<doing, total, successes, head, ring, open, past, now>>

\* The worker takes the next event; one about a probe changes none of this.
Take ==
  /\ queue # <<>> /\ doing[Worker].step = 0
  /\ queue' = Tail(queue)
  /\ IF Head(queue) = Notice THEN UNCHANGED doing ELSE Begin(Worker, Head(queue))
  /\ UNCHANGED <<dropped, total, successes, head, ring, open, past, now, notices>>

-----------------------------------------------------------------------------
(* DefaultCollector::record_request *)

At(w, step) == doing[w].step > 0 /\ Steps[doing[w].step] = step

Advance(w, held) ==
  doing' = [doing EXCEPT ![w] =
              IF @.step = Len(Steps) THEN Idle
              ELSE [item |-> @.item, step |-> @.step + 1, held |-> held]]

Count(w, success) ==
  /\ At(w, "count") /\ Advance(w, 0)
  /\ total' = total + 1
  /\ successes' = IF success THEN successes + 1 ELSE successes
  /\ UNCHANGED <<queue, dropped, head, ring, open, past, now, notices>>

\* RingBuffer::push takes its number before the lock.
TakeNumber(w) ==
  /\ At(w, "number") /\ Advance(w, head)
  /\ head' = head + 1
  /\ UNCHANGED <<queue, dropped, total, successes, ring, open, past, now, notices>>

Push(w) ==
  /\ At(w, "push") /\ Advance(w, 0)
  /\ ring' = Append(IF Len(ring) < Ring THEN ring ELSE Tail(ring),
                    [seq |-> doing[w].held, item |-> doing[w].item])
  /\ UNCHANGED <<queue, dropped, total, successes, head, open, past, now, notices>>

\* RollingAggregator::record reads the time before the lock.
ReadClock(w) ==
  /\ At(w, "read") /\ Advance(w, now)
  /\ UNCHANGED <<queue, dropped, total, successes, head, ring, open, past, now, notices>>

\* Closes the window: also a later one, for a recorder that read the time early.
Rolled(start) ==
  IF open.start = start THEN <<open, past>>
  ELSE LET closed == Append(past, open)
       IN  <<[start |-> start, rows |-> Empty],
             IF Len(closed) > Windows THEN Tail(closed) ELSE closed>>

Merge(w) ==
  /\ At(w, "merge") /\ Advance(w, 0)
  /\ LET rolled == Rolled(doing[w].held)
     IN  /\ open' = [rolled[1] EXCEPT !.rows[doing[w].item] = @ + 1]
         /\ past' = rolled[2]
  /\ UNCHANGED <<queue, dropped, total, successes, head, ring, now, notices>>

Tick ==
  /\ now < Clock
  /\ now' = now + 1
  /\ UNCHANGED <<queue, dropped, doing, total, successes, head, ring, open, past, notices>>

Write(w, success) ==
  Count(w, success) \/ TakeNumber(w) \/ Push(w) \/ ReadClock(w) \/ Merge(w)

-----------------------------------------------------------------------------
(* RingBuffer::query, pages of one entry: the newest whose number is below    *)
(* the cursor, and the cursor of the page after it                            *)

Page(cursor) == {i \in DOMAIN ring : ring[i].seq < cursor}

\* The place of the page's entry, 0 when there is none.
Shown(cursor) == Max(Page(cursor) \cup {0})

-----------------------------------------------------------------------------
(* What is known of the records *)

Writers(r) == {w \in Recorders : doing[w].step > 0 /\ doing[w].item = r}
Waiting(r) == {i \in DOMAIN queue : queue[i] = r}

\* The step that the writing of a record has reached, and the records behind one.
Reached(r, step) == \A w \in Writers(r) : doing[w].step > step

\* The windows that a record is in.
AllWindows == Append(past, open)
Having(r) == {i \in DOMAIN AllWindows : AllWindows[i].rows[r] > 0}
=============================================================================
