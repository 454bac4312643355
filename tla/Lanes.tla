-------------------------------- MODULE Lanes --------------------------------
(***************************************************************************)
(* The admission lanes of the proxy (src/zen-proxy-rs/src/lanes.rs): each  *)
(* lane is an atomic counter that request tasks raise with a weak compare- *)
(* exchange.  A task that finds its lane full polls it again every 10 ms,  *)
(* in no order, until its wait is over.  The permit travels with the       *)
(* handler's future and then with the response; whoever drops it gives the *)
(* slot back, also when the client goes away first.                        *)
(***************************************************************************)
EXTENDS Integers, FiniteSets

CONSTANTS
  Requests,  \* request tasks
  Profiles,  \* what classify_lane sees of a request
  Enabled,   \* v43_lanes_enabled
  Slots,     \* the configured concurrency of each lane
  Polls      \* v43_lane_wait_timeout_ms in polls of 10 ms

LaneKind == {"ShortNonStream", "NormalStream", "LargeContext", "HugeContext",
             "LongNonStream", "LongOutput", "ToolHeavy"}

Profile == [size : {"small", "large", "huge"},  \* by megabytes or by tokens
            chat : BOOLEAN,       \* path is chat/completions or messages
            tools : BOOLEAN,      \* 8 tools or 6 tool markers
            stream : BOOLEAN,
            longOutput : BOOLEAN, \* max_tokens over v46_long_output_tokens
            longInput : BOOLEAN]  \* tokens from v46_long_nonstream_tokens on

ASSUME RequestsAssumption == IsFiniteSet(Requests)
ASSUME ProfilesAssumption == Profiles \subseteq Profile
ASSUME SlotsAssumption == Slots \in [LaneKind -> Nat]
ASSUME PollsAssumption == Polls \in Nat /\ Enabled \in BOOLEAN

VARIABLES
  inFlight,  \* LaneState.in_flight of each lane
  pc,
  lane,      \* the lane a request was classified into
  current,   \* the counter value its task holds
  waited     \* its polls so far

vars == <<inFlight, pc, lane, current, waited>>

\* Trying: between arrival and answer.  Holding: with a permit.
Trying == {"load", "swap", "sleep"}
Holding == {"handler", "response"}
PC == {"idle", "refused"} \cup Trying \cup Holding

TypeOK ==
  /\ inFlight \in [LaneKind -> Nat]
  /\ pc \in [Requests -> PC]
  /\ lane \in [Requests -> LaneKind]
  /\ current \in [Requests -> Nat]
  /\ waited \in [Requests -> 0..Polls]

Init ==
  /\ inFlight = [k \in LaneKind |-> 0]
  /\ pc = [r \in Requests |-> "idle"]
  /\ lane = [r \in Requests |-> "ShortNonStream"]
  /\ current = [r \in Requests |-> 0]
  /\ waited = [r \in Requests |-> 0]

\* LaneState::new gives every lane a slot.
Max(k) == IF Slots[k] > 1 THEN Slots[k] ELSE 1

-----------------------------------------------------------------------------
(* classify_lane: size first, then the path, then how long it will take *)

ChatLane(q) ==
  IF q.tools THEN "ToolHeavy"
  ELSE IF q.stream THEN "NormalStream"
  ELSE IF q.longOutput THEN "LongOutput"
  ELSE IF q.longInput THEN "LongNonStream"
  ELSE "ShortNonStream"

Classified(q) ==
  IF ~Enabled THEN "ShortNonStream"
  ELSE IF q.size = "huge" THEN "HugeContext"
  ELSE IF q.size = "large" THEN "LargeContext"
  ELSE IF q.chat THEN ChatLane(q) ELSE "ShortNonStream"

-----------------------------------------------------------------------------
(* acquire *)

GoTo(r, step) == pc' = [pc EXCEPT ![r] = step]

\* A task that is not trying keeps no loop variables.
Leaves(r, step) ==
  /\ GoTo(r, step)
  /\ current' = [current EXCEPT ![r] = 0]
  /\ waited' = [waited EXCEPT ![r] = 0]

Arrive(r, q) ==
  /\ pc[r] \in {"idle", "refused"}
  /\ GoTo(r, "load")
  /\ lane' = [lane EXCEPT ![r] = Classified(q)]
  /\ UNCHANGED <<inFlight, current, waited>>

Load(r) ==
  /\ pc[r] = "load"
  /\ current' = [current EXCEPT ![r] = inFlight[lane[r]]]
  /\ GoTo(r, "swap")
  /\ UNCHANGED <<inFlight, lane, waited>>

Free(r) == pc[r] = "swap" /\ current[r] < Max(lane[r])

\* Mutant of Swap: does not compare before it stores.
SwapBlindly(r) ==
  /\ Free(r)
  /\ inFlight' = [inFlight EXCEPT ![lane[r]] = @ + 1]
  /\ Leaves(r, "handler")
  /\ UNCHANGED lane

Swap(r) ==
  /\ Free(r)
  /\ current[r] = inFlight[lane[r]]
  /\ inFlight' = [inFlight EXCEPT ![lane[r]] = current[r] + 1]
  /\ Leaves(r, "handler")
  /\ UNCHANGED lane

\* The counter moved, or the exchange failed spuriously.
SwapFails(r) ==
  /\ Free(r)
  /\ current' = [current EXCEPT ![r] = inFlight[lane[r]]]
  /\ UNCHANGED <<inFlight, pc, lane, waited>>

Full(r) == pc[r] = "swap" /\ current[r] >= Max(lane[r])

\* Mutant of Sleep: polls once more than the wait allows.
SleepOnce(r) ==
  /\ Full(r)
  /\ waited[r] <= Polls
  /\ GoTo(r, "sleep")
  /\ UNCHANGED <<inFlight, lane, current, waited>>

Sleep(r) ==
  /\ Full(r)
  /\ waited[r] < Polls
  /\ GoTo(r, "sleep")
  /\ UNCHANGED <<inFlight, lane, current, waited>>

\* Mutant of Wake: does not count the poll.
WakeForgets(r) ==
  /\ pc[r] = "sleep"
  /\ GoTo(r, "load")
  /\ current' = [current EXCEPT ![r] = 0]
  /\ UNCHANGED <<inFlight, lane, waited>>

Wake(r) ==
  /\ pc[r] = "sleep"
  /\ GoTo(r, "load")
  /\ current' = [current EXCEPT ![r] = 0]
  /\ waited' = [waited EXCEPT ![r] = @ + 1]
  /\ UNCHANGED <<inFlight, lane>>

\* 503 with the lane's name.
Refuse(r) ==
  /\ Full(r)
  /\ waited[r] >= Polls
  /\ Leaves(r, "refused")
  /\ UNCHANGED <<inFlight, lane>>

-----------------------------------------------------------------------------
(* The permit's life: proxy_handler, attach, drop *)

Attach(r) ==
  /\ pc[r] = "handler"
  /\ GoTo(r, "response")
  /\ UNCHANGED <<inFlight, lane, current, waited>>

\* The client goes away while its task waits for the lane.
GiveUp(r) ==
  /\ pc[r] \in Trying
  /\ Leaves(r, "idle")
  /\ UNCHANGED <<inFlight, lane>>

\* Mutant of Drop: gives back only what was attached to a response.
DropLeaks(r) ==
  /\ pc[r] \in Holding
  /\ inFlight' = IF pc[r] = "response"
                 THEN [inFlight EXCEPT ![lane[r]] = @ - 1]
                 ELSE inFlight
  /\ GoTo(r, "idle")
  /\ UNCHANGED <<lane, current, waited>>

\* The server is done with the response, or the handler's future is dropped.
Drop(r) ==
  /\ pc[r] \in Holding
  /\ inFlight' = [inFlight EXCEPT ![lane[r]] = @ - 1]
  /\ GoTo(r, "idle")
  /\ UNCHANGED <<lane, current, waited>>

-----------------------------------------------------------------------------
Trial(r) == Load(r) \/ Swap(r) \/ SwapFails(r) \/ Sleep(r) \/ Wake(r) \/ Refuse(r)

Next ==
  \E r \in Requests :
    \/ \E q \in Profiles : Arrive(r, q)
    \/ Trial(r)
    \/ GiveUp(r)
    \/ Attach(r)
    \/ Drop(r)

\* A task in the loop is scheduled, and a compare-exchange that could succeed
\* again and again does at last.
Fairness == \A r \in Requests : WF_vars(Trial(r)) /\ SF_vars(Swap(r))

Spec == Init /\ [][Next]_vars /\ Fairness

-----------------------------------------------------------------------------
(* Properties *)

Holders(k) == {r \in Requests : lane[r] = k /\ pc[r] \in Holding}

\* The counter of a lane is exactly the number of its permits that are alive,
\* however the loads, exchanges, refusals and disconnects interleave, so no slot
\* is lost and none is given out twice (lanes.rs try_acquire, Drop).
CountExact == \A k \in LaneKind : inFlight[k] = Cardinality(Holders(k))

\* Each lane implements Permits: its permits never exceed its slots.  TLC wants
\* the lanes' specifications written as one.
Lane(k) == INSTANCE Permits WITH
  Permit <- Requests, Limit <- Max(k), out <- Holders(k)
ImplementsPermits ==
  /\ \A k \in LaneKind : Lane(k)!Init
  /\ [][\A k \in LaneKind : Lane(k)!Next \/ UNCHANGED Holders(k)]_vars

\* A request is admitted or refused in the end, however busy its lane and
\* whoever overtakes it.
EveryArrivalAnswered ==
  \A r \in Requests : pc[r] \in Trying ~> pc[r] \notin Trying
=============================================================================
