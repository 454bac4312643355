------------------------------ MODULE Delivery -------------------------------
(***************************************************************************)
(* How an answer leaves the proxy and what is recorded of it.  A request   *)
(* takes one of two ways (src/zen-proxy-rs/src/proxy.rs proxy_handler):    *)
(* through the kernel (v4/provider.rs handle_v4_proxy), whose retries      *)
(* RequestRetry models and here are one step, or straight to the upstream  *)
(* (proxy_with_retry).  A stream of the kernel is passed on by a metered   *)
(* task, through a channel that the client empties or gives up.            *)
(***************************************************************************)
EXTENDS Collector

CONSTANTS
  Channel,   \* capacity of the channel to the client
  Retries    \* pool_max_retries

DeliveryAssumption ==
  CollectorAssumption /\ Channel \in Nat \ {0} /\ Retries \in Nat \ {0}

VARIABLES
  phase,    \* of each request task
  unread,   \* chunks in the channel to the client
  gone,     \* the clients that dropped their receiver
  seen,     \* what the metrics found in the stream: output, a rate limit error
  owed,     \* leases the task took less what it reported
  told,     \* its last report
  outcome,  \* of the record it handed over
  attempt   \* of the straight way

vars == <<collectorVars, phase, unread, gone, seen, owed, told, outcome, attempt>>

\* "send", "body" and "whole" await the upstream, "pause" a timer; "kernel" and
\* "abandoned" own no stream yet, or never.
Phases == {"idle", "kernel", "stream", "push", "straight", "send", "body", "whole", "pause",
           "recorded", "refused", "abandoned"}

Failed == {"refused", "unread", "stream_error", "rate_limited", "empty_output", "client_gone"}
Success == "success"

TypeOK ==
  /\ CollectorTypeOK
  /\ phase \in [Tasks -> Phases]
  /\ unread \in [Tasks -> 0..Channel]
  /\ gone \subseteq Tasks
  /\ seen \in [Tasks -> SUBSET {"output", "limit"}]
  /\ owed \in [Tasks -> Int]
  /\ told \in [Tasks -> Failed \cup {Success, "none"}]
  /\ outcome \in [Tasks -> Failed \cup {Success, "none"}]
  /\ attempt \in [Tasks -> 0..Retries]

Init ==
  /\ CollectorInit
  /\ phase = [r \in Tasks |-> "idle"]
  /\ unread = [r \in Tasks |-> 0]
  /\ gone = {}
  /\ seen = [r \in Tasks |-> {}]
  /\ owed = [r \in Tasks |-> 0]
  /\ told = [r \in Tasks |-> "none"]
  /\ outcome = [r \in Tasks |-> "none"]
  /\ attempt = [r \in Tasks |-> 0]

GoTo(r, p) == phase' = [phase EXCEPT ![r] = p]
Took(r) == owed' = [owed EXCEPT ![r] = @ + 1] /\ UNCHANGED told
Reported(r, result) ==
  /\ owed' = [owed EXCEPT ![r] = @ - 1]
  /\ told' = [told EXCEPT ![r] = result]

\* The record goes to the collector, in the step that ends the task's part.
Record(r, result) ==
  /\ Submit(r)
  /\ GoTo(r, "recorded")
  /\ outcome' = [outcome EXCEPT ![r] = result]

Quiet == UNCHANGED collectorVars

Arrive(r, way) ==
  /\ phase[r] = "idle"
  /\ GoTo(r, way)
  /\ Quiet /\ UNCHANGED <<unread, gone, seen, owed, told, outcome, attempt>>

-----------------------------------------------------------------------------
(* handle_v4_proxy *)

\* call_with_retry ends with an error: its leases are reported by now.
KernelRefuses(r) ==
  /\ phase[r] = "kernel"
  /\ Record(r, "refused")
  /\ UNCHANGED <<unread, gone, seen, owed, told, attempt>>

\* A complete body: reported by call_with_retry, recorded by the handler.
KernelAnswers(r) ==
  /\ phase[r] = "kernel"
  /\ told' = [told EXCEPT ![r] = Success]
  /\ Record(r, Success)
  /\ UNCHANGED <<unread, gone, seen, owed, attempt>>

\* A stream: the metered task gets its lease, with a guard.
KernelStreams(r) ==
  /\ phase[r] = "kernel"
  /\ Took(r)
  /\ GoTo(r, "stream")
  /\ Quiet /\ UNCHANGED <<unread, gone, seen, outcome, attempt>>

\* The client leaves, and the handler's future is dropped: nothing is recorded.
Abandon(r) ==
  /\ phase[r] \in {"kernel", "send", "body", "whole", "pause"}
  /\ GoTo(r, "abandoned")
  /\ Quiet /\ UNCHANGED <<unread, gone, seen, owed, told, outcome, attempt>>

-----------------------------------------------------------------------------
(* metered_stream_response *)

\* An event of a stream: what it carries, with "blank" for text, thinking or tool
\* input of nothing but blanks, and whether it has an error that names a rate limit.
Events == [carries : {"text", "blank", "thinking", "tool", "other"}, limited : BOOLEAN]

LimitError(e) == IF e.limited THEN {"limit"} ELSE {}

\* The output that counts: on the messages path thinking does, on the chat path only
\* text and tool calls do.
MessagesSignal(e) ==
  LimitError(e) \cup (IF e.carries \in {"text", "thinking", "tool"} THEN {"output"} ELSE {})
ChatSignal(e) ==
  LimitError(e) \cup (IF e.carries \in {"text", "tool"} THEN {"output"} ELSE {})

\* A chunk completes no event or any number of them; what is not data or not JSON
\* signals nothing.
Signals == {{}} \cup {MessagesSignal(e) : e \in Events} \cup {ChatSignal(e) : e \in Events}

\* The next chunk, and what StreamMetrics::ingest finds in it.
Chunk(r, signal) ==
  /\ phase[r] = "stream"
  /\ seen' = [seen EXCEPT ![r] = @ \cup signal]
  /\ GoTo(r, "push")
  /\ Quiet /\ UNCHANGED <<unread, gone, owed, told, outcome, attempt>>

\* send_stream_bytes
PushChunk(r) ==
  /\ phase[r] = "push"
  /\ r \notin gone /\ unread[r] < Channel
  /\ unread' = [unread EXCEPT ![r] = @ + 1]
  /\ GoTo(r, "stream")
  /\ Quiet /\ UNCHANGED <<gone, seen, owed, told, outcome, attempt>>

Settled(r, report, result) ==
  /\ Reported(r, report)
  /\ Record(r, result)
  /\ unread' = [unread EXCEPT ![r] = 0]
  /\ seen' = [seen EXCEPT ![r] = {}]
  /\ UNCHANGED attempt

\* The receiver is gone, or the client has left the channel full for 30 s.
Unsendable(r) == r \in gone \/ unread[r] = Channel

ClientLost(r) ==
  /\ phase[r] = "push" /\ Unsendable(r)
  /\ Settled(r, "client_gone", "client_gone")
  /\ UNCHANGED gone

\* The upstream's stream breaks.  The error frame that cannot be sent makes it
\* the client's fault; one about rate limits is reported as such.
StreamBreaks(r, limited) ==
  /\ phase[r] = "stream"
  /\ \/ /\ ~Unsendable(r)
        /\ Settled(r, IF limited THEN "rate_limited" ELSE "stream_error", "stream_error")
     \/ Unsendable(r) /\ Settled(r, "client_gone", "client_gone")
  /\ UNCHANGED gone

Ending(r) ==
  IF "output" \in seen[r] THEN Success
  ELSE IF "limit" \in seen[r] THEN "rate_limited" ELSE "empty_output"

StreamEnds(r) ==
  /\ phase[r] = "stream"
  /\ Settled(r, Ending(r), Ending(r))
  /\ UNCHANGED gone

-----------------------------------------------------------------------------
(* proxy_with_retry *)

\* No node admits the request: a 503, or a pause that costs an attempt.
Unserved(r) ==
  /\ phase[r] = "straight"
  /\ \/ GoTo(r, "refused") /\ UNCHANGED attempt
     \/ /\ attempt[r] < Retries
        /\ attempt' = [attempt EXCEPT ![r] = @ + 1]
        /\ GoTo(r, "pause")
  /\ Quiet /\ UNCHANGED <<unread, gone, seen, owed, told, outcome>>

\* dispatch, or dispatch_sticky to the last node and then dispatch
Dispatch(r) ==
  /\ phase[r] = "straight"
  /\ Took(r)
  /\ GoTo(r, "send")
  /\ Quiet /\ UNCHANGED <<unread, gone, seen, outcome, attempt>>

\* should_retry; a network error always tries again, and the loop's end refuses.
Retry(r, retriable) ==
  IF retriable /\ attempt[r] < Retries
  THEN attempt' = [attempt EXCEPT ![r] = @ + 1] /\ GoTo(r, "pause")
  ELSE GoTo(r, "refused") /\ UNCHANGED attempt

\* 429, any other status from 400 on, or no answer
SendFails(r, result, retriable) ==
  /\ phase[r] = "send"
  /\ Reported(r, result)
  /\ Retry(r, retriable)
  /\ Quiet /\ UNCHANGED <<unread, gone, seen, outcome>>

\* A stream is recorded as it begins; its relay reports nothing more.
SendStreams(r) ==
  /\ phase[r] = "send"
  /\ Reported(r, Success)
  /\ Record(r, Success)
  /\ UNCHANGED <<unread, gone, seen, attempt>>

\* Any other success is read in full: "whole" is one that was to be a stream and is
\* no text/event-stream.
SendAnswers(r, p) ==
  /\ phase[r] = "send"
  /\ Reported(r, Success)
  /\ GoTo(r, p)
  /\ Quiet /\ UNCHANGED <<unread, gone, seen, outcome, attempt>>

BodyRead(r) ==
  /\ phase[r] \in {"body", "whole"}
  /\ Record(r, Success)
  /\ UNCHANGED <<unread, gone, seen, owed, told, attempt>>

\* 502: the handler's errors are counted by upstream_health, not recorded.
BodyBreaks(r) ==
  /\ phase[r] = "body"
  /\ GoTo(r, "refused")
  /\ Quiet /\ UNCHANGED <<unread, gone, seen, owed, told, outcome, attempt>>

\* A 502 that goes out as the answer, and is recorded as one.
WholeBreaks(r) ==
  /\ phase[r] = "whole"
  /\ Record(r, "unread")
  /\ UNCHANGED <<unread, gone, seen, owed, told, attempt>>

Resume(r) ==
  /\ phase[r] = "pause"
  /\ GoTo(r, "straight")
  /\ Quiet /\ UNCHANGED <<unread, gone, seen, owed, told, outcome, attempt>>

-----------------------------------------------------------------------------
(* The client of a stream *)

Read(r) ==
  /\ unread[r] > 0 /\ r \notin gone
  /\ unread' = [unread EXCEPT ![r] = @ - 1]
  /\ Quiet /\ UNCHANGED <<phase, gone, seen, owed, told, outcome, attempt>>

Leave(r) ==
  /\ phase[r] \in {"stream", "push"} /\ r \notin gone
  /\ gone' = gone \cup {r}
  /\ Quiet /\ UNCHANGED <<phase, unread, seen, owed, told, outcome, attempt>>

-----------------------------------------------------------------------------
Ours == UNCHANGED <<phase, unread, gone, seen, owed, told, outcome, attempt>>

\* success_count goes by the status, which a stream has before it fails.
Status200 == {Success, "stream_error", "empty_output", "client_gone"}

Writes(w) == Write(w, outcome[doing[w].item] \in Status200) /\ Ours

Task(r) ==
  \/ \E way \in {"kernel", "straight"} : Arrive(r, way)
  \/ KernelRefuses(r) \/ KernelAnswers(r) \/ KernelStreams(r) \/ Abandon(r)
  \/ \E signal \in Signals : Chunk(r, signal)
  \/ \E limited \in BOOLEAN : StreamBreaks(r, limited)
  \/ PushChunk(r) \/ ClientLost(r) \/ StreamEnds(r)
  \/ Unserved(r) \/ Dispatch(r) \/ Resume(r)
  \/ \E result \in {"rate_limited", "refused"}, retriable \in BOOLEAN : SendFails(r, result, retriable)
  \/ SendStreams(r) \/ BodyRead(r) \/ BodyBreaks(r) \/ WholeBreaks(r)
  \/ \E p \in {"body", "whole"} : SendAnswers(r, p)
  \/ Read(r) \/ Leave(r)

Telemetry ==
  \/ Notify /\ Ours
  \/ Take /\ Ours
  \/ Tick /\ Ours
  \/ \E w \in Recorders : doing[w].step > 0 /\ Writes(w)

Next == Telemetry \/ \E r \in Tasks : Task(r)

Spec == Init /\ [][Next]_vars

-----------------------------------------------------------------------------
(* Properties *)

Handed == {r \in Tasks : phase[r] = "recorded"}
Behind(r, step) == r \in Handed /\ Waiting(r) = {} /\ Reached(r, step)
Written(r) == r \in Handed /\ Waiting(r) = {} /\ Writers(r) = {}

\* A record handed over is in the queue, or with one writer, or written; the
\* counters and the ring's numbers agree with how far the writers are.
CountersAgree ==
  /\ \A r \in Tasks :
       LET places == Cardinality(Waiting(r)) + Cardinality(Writers(r))
       IN  places <= 1 /\ (places = 1 => r \in Handed)
  /\ total = Cardinality({r \in Tasks : Behind(r, 1)})
  /\ successes = Cardinality({r \in Tasks : Behind(r, 1) /\ outcome[r] \in Status200})
  /\ head = Cardinality({r \in Tasks : Behind(r, 2)})

\* It is in one window, however late its writer closes or reopens one, until
\* max_windows push it out.
InOneWindow ==
  \A r \in Tasks :
    /\ \A i \in Having(r) : Having(r) = {i} /\ AllWindows[i].rows[r] = 1
    /\ Len(past) < Windows => (Having(r) # {} <=> Written(r))

\* The pages of the ring skip and repeat nothing when its entries came in order:
\* the first shows the newest entry, each one after it the entry before.
InOrder == \A i, j \in DOMAIN ring : i < j => ring[i].seq < ring[j].seq
PagesComplete ==
  InOrder => Shown(head) = Len(ring) /\ \A i \in DOMAIN ring : Shown(ring[i].seq) = i - 1

\* Each lease is reported once, the last as the record says, unless a stream broke
\* on a rate limit, or the pool was told of a success and then the body of what was
\* to be a stream could not be read; a client that leaves while the handler awaits
\* the upstream costs the lease of that attempt.
Holding == {"stream", "push", "send"}
LeasesReported ==
  \A r \in Tasks :
    /\ phase[r] # "abandoned" => owed[r] = IF phase[r] \in Holding THEN 1 ELSE 0
    /\ phase[r] = "abandoned" => owed[r] \in 0..1
    /\ phase[r] = "recorded" /\ told[r] # "none" =>
         \/ told[r] = outcome[r]
         \/ told[r] = "rate_limited" /\ outcome[r] = "stream_error"
         \/ told[r] = Success /\ outcome[r] = "unread"

\* Every answer is recorded once, whether its record found room in the queue or
\* its task had to write it beside the worker, and agrees with what was reported
\* of its lease, but for the two ways that LeasesReported names
\* (async_collector.rs record_request, provider.rs metered_stream_response,
\* proxy.rs proxy_with_retry, read_full_body).
AnswersAccounted == CountersAgree /\ InOneWindow /\ PagesComplete /\ LeasesReported
=============================================================================
