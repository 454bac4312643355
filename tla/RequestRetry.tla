----------------------------- MODULE RequestRetry -----------------------------
(***************************************************************************)
(* One client request of the V4 provider                                   *)
(* (src/zen-proxy-rs/src/v4/provider.rs, call_with_retry and what becomes  *)
(* of its answer): which node each attempt is sent to, how each answer is  *)
(* reported, when the request is tried again and when it ends.  The other  *)
(* requests appear as the nodes that happen to be free; ProxyPool and      *)
(* NodeAdmission model what a report does to a node.                       *)
(*                                                                         *)
(* Times are milliseconds.  A client that goes away drops the future of    *)
(* the handler at whatever await it stands.                                *)
(***************************************************************************)
EXTENDS Integers, FiniteSets

CONSTANTS
  Nodes,
  Direct,       \* the pseudo-node of a request sent without a proxy
  None,         \* no node
  Requests,     \* what the retry policy sees of the requests to consider
  Delays,       \* how long a call, a precheck or a body may take
  BaseMax,      \* pool_max_retries
  EmptyMax,     \* v4_empty_upstream_max_retries
  RetryBudget,  \* v4_retry_budget_ms, 0 for none
  AllowDirect,  \* allow_direct_fallback of the configuration
  MaxSpent      \* bound on the clock "spent"

Path == {"messages", "chat/completions"}
Probe == {"none", "micro", "small"}
Request == [path : Path, mimo : BOOLEAN, stream : BOOLEAN, probe : Probe,
            local : BOOLEAN,   \* an empty answer has a local fallback text
            tokens : Nat,      \* estimated_input_tokens
            direct : BOOLEAN]  \* allow_direct_fallback of the request

Larger(a, b) == IF a > b THEN a ELSE b
Smaller(a, b) == IF a < b THEN a ELSE b

ASSUME NodesAssumption == Direct \notin Nodes /\ None \notin Nodes \cup {Direct}
ASSUME DelaysAssumption == Delays \subseteq Nat /\ 0 \in Delays
ASSUME LimitsAssumption ==
  BaseMax \in Nat /\ EmptyMax \in Nat /\ RetryBudget \in Nat /\ MaxSpent \in Nat
ASSUME AllowDirectAssumption == AllowDirect \in BOOLEAN
\* Only a streaming request is classified as a probe, only a probe has a local
\* fallback, and only the messages path has the limits of the mimo family.
ASSUME RequestsAssumption ==
  /\ Requests \subseteq Request
  /\ \A q \in Requests :
       /\ q.probe # "none" => q.stream
       /\ q.local => q.probe # "none"
       /\ q.mimo => q.path = "messages"

VARIABLES
  request,      \* the request
  phase,        \* the await it stands at
  attempt,
  node,         \* last_node_id, and the node of the attempt under way
  forceDirect,  \* force_direct_next
  emptied,      \* empty_output_nodes
  empties,      \* attempts in retry_chain that ended in empty output
  charged,      \* retry_chain_latency_ms
  latency,      \* what the attempt's call took
  pin,          \* session_pin of the request's session
  failure,      \* what the last attempt failed with
  free,         \* history: the nodes that admitted requests at the last dispatch
  balance,      \* history: leases taken on a node less the reports on it
  spent         \* history: time in calls, prechecks and bodies

vars == <<request, phase, attempt, node, forceDirect, emptied, empties, charged,
          latency, pin, failure, free, balance, spent>>

Phase == {"dispatch", "wait", "call", "peek", "body", "backoff", "stream", "local",
          "answered", "failed", "localDone", "unread", "abandoned"}
Failure == {"none", "limited", "gateway", "server", "status", "busy", "invalid",
            "empty", "transport", "upstream", "deadline"}
Targets == Nodes \cup {Direct}

-----------------------------------------------------------------------------
(* The limits of a request *)

\* effective_empty_upstream_max_retries
EmptyLimit(q) ==
  LET configured == Larger(EmptyMax, BaseMax)
      cap == IF q.probe = "micro" THEN 2
             ELSE IF q.probe = "small" THEN 3
             ELSE IF q.mimo THEN (IF q.tokens >= 10000 THEN 2 ELSE 4)
             ELSE IF q.path = "messages" /\ q.tokens >= 100000 THEN 1
             ELSE IF q.path = "messages" /\ q.tokens >= 50000 THEN 2
             ELSE configured
  IN Smaller(configured, cap)

\* effective_retry_budget_ms
Budget(q) ==
  LET cap == IF q.probe = "micro" THEN 15000
             ELSE IF q.probe = "small" THEN 25000
             ELSE IF q.mimo THEN (IF q.tokens >= 50000 THEN 20000
                                  ELSE IF q.tokens >= 10000 THEN 30000
                                  ELSE RetryBudget)
             ELSE IF q.path = "messages" /\ q.tokens >= 100000 THEN 45000
             ELSE IF q.path = "messages" /\ q.tokens >= 50000 THEN 55000
             ELSE RetryBudget
  IN Smaller(RetryBudget, cap)

Budgeted == Budget(request) > 0
Remaining == Larger(Budget(request) - charged, 0)

\* cap_precheck_timeout_secs: whole seconds, and at least one.
PrecheckTimeout ==
  LET base == IF request.probe = "micro" THEN 10 ELSE 30
      left == Larger(Remaining - latency, 0) \div 1000
  IN 1000 * (IF Budgeted THEN Smaller(base, Larger(left, 1)) ELSE base)

-----------------------------------------------------------------------------
TypeOK ==
  /\ request \in Requests
  /\ phase \in Phase
  /\ attempt \in 0..EmptyLimit(request)
  /\ node \in Targets \cup {None}
  /\ forceDirect \in BOOLEAN
  /\ emptied \in SUBSET Targets
  /\ empties \in 0..(attempt + 1)
  /\ charged \in Nat
  /\ latency \in Nat
  /\ pin \in Nodes \cup {None}
  /\ failure \in Failure
  /\ free \in SUBSET Nodes
  /\ balance \in [Nodes -> Int]
  /\ spent \in 0..MaxSpent

Init ==
  /\ request \in Requests
  /\ phase = "dispatch"
  /\ attempt = 0
  /\ node = None
  /\ forceDirect = FALSE
  /\ emptied = {}
  /\ empties = 0
  /\ charged = 0
  /\ latency = 0
  /\ pin \in Nodes \cup {None}
  /\ failure = "none"
  /\ free = {}
  /\ balance = [n \in Nodes |-> 0]
  /\ spent = 0

-----------------------------------------------------------------------------
(* Dispatch: the targets the pool manager may hand out when the nodes in f   *)
(* admit requests, each with the session pin it leaves behind                *)

\* dispatch_without_session_pin_excluding
Unpinned(exclude, f) ==
  IF f \ exclude # {} THEN {<<n, n>> : n \in f \ exclude}
  ELSE IF AllowDirect /\ request.direct THEN {<<Direct, pin>>}
  ELSE {}

\* Mutant of Pinned: drops the exclusion list on the fallback of a busy pin.
PinnedLosesExclusion(exclude, f) ==
  IF pin \in f \ exclude THEN {<<pin, pin>>}
  ELSE IF pin \in Nodes \ exclude THEN Unpinned({}, f)
  ELSE Unpinned(exclude, f)

\* dispatch_excluding
Pinned(exclude, f) ==
  IF pin \in f \ exclude THEN {<<pin, pin>>} ELSE Unpinned(exclude, f)

\* dispatch_direct
Directly == IF AllowDirect THEN {<<Direct, pin>>} ELSE {}

\* dispatch_sticky, which does not record a pin
Sticky(f) ==
  IF node = Direct THEN Directly
  ELSE IF node \in f THEN {<<node, pin>>}
  ELSE Unpinned({}, f)

\* The nodes that returned nothing are avoided when that leaves a choice.
Choices(f) ==
  IF forceDirect THEN Directly
  ELSE IF emptied # {}
       THEN (IF Pinned(emptied, f) # {} THEN Pinned(emptied, f) ELSE Pinned({}, f))
  ELSE IF attempt > 0 THEN Sticky(f)
  ELSE Pinned({}, f)

Send(choice) ==
  /\ phase' = "call"
  /\ node' = choice[1]
  /\ pin' = choice[2]
  /\ balance' = IF choice[1] \in Nodes
                THEN [balance EXCEPT ![choice[1]] = @ + 1] ELSE balance

Refuse ==
  /\ phase' = "failed"
  /\ UNCHANGED <<node, pin, balance>>

\* An empty f is a pool that is exhausted, a request that is too large for every
\* node, or, with direct denied too, an open fuse.  dispatch_or_wait sleeps
\* 100 ms and tries once more.
Dispatch ==
  /\ phase = "dispatch"
  /\ free' \in SUBSET Nodes
  /\ \/ \E choice \in Choices(free') : Send(choice)
     \/ /\ Choices(free') = {} \/ free' = {}
        /\ IF ~forceDirect /\ emptied = {} /\ attempt < EmptyLimit(request)
           THEN phase' = "wait" /\ UNCHANGED <<node, pin, balance>>
           ELSE Refuse
     \/ attempt = 0 /\ free' = {} /\ Refuse
  /\ forceDirect' = FALSE
  /\ UNCHANGED <<request, attempt, emptied, empties, charged, latency, failure,
                 spent>>

DispatchAgain ==
  /\ phase = "wait"
  /\ free' \in SUBSET Nodes
  /\ \/ \E choice \in Pinned({}, free') : Send(choice)
     \/ free' = {} /\ Refuse
  /\ UNCHANGED <<request, attempt, forceDirect, emptied, empties, charged,
                 latency, failure, spent>>

-----------------------------------------------------------------------------
(* The end of an attempt *)

\* PoolManager::report, which ignores the direct pseudo-node.
Report == balance' = IF node \in Nodes
                     THEN [balance EXCEPT ![node] = @ - 1] ELSE balance

Spend(d) == spent' = Smaller(spent + d, MaxSpent)

\* The attempt joins retry_chain, and the request ends with its failure, or goes
\* on to the next step.
Charge(d) == charged' = charged + d
\* Mutant of OutOfBudget: compares with > instead of >=.
OutOfBudgetLate(d) == Budgeted /\ charged + d > Budget(request)

OutOfBudget(d) == Budgeted /\ charged + d >= Budget(request)
EndOr(last, d, step) ==
  phase' = IF OutOfBudget(d) \/ attempt >= last THEN "failed" ELSE step

\* clear_session_pin_for_failure
Clearing == {"gateway", "server", "transport", "empty"}

\* A failure clears the pin when it speaks against the node, and lets the next
\* attempt go around the proxies when the node may be what is broken.
GoesAround == {"gateway", "transport"}
Fail(kind, last, d) ==
  /\ failure' = kind
  /\ pin' = IF kind \in Clearing THEN None ELSE pin
  /\ forceDirect' = (/\ AllowDirect /\ request.direct
                     /\ node # Direct
                     /\ kind \in GoesAround
                     /\ attempt < last)
  /\ Report
  /\ Charge(d)
  /\ EndOr(last, d, "backoff")

\* The answers of call_future that come before its deadline.
CallTakes(d) ==
  /\ phase = "call"
  /\ Budgeted => d <= Remaining
  /\ latency' = d
  /\ Spend(d)

\* A 2xx status.
CallAnswers(d) ==
  /\ CallTakes(d)
  /\ phase' = IF request.stream THEN "peek" ELSE "body"
  /\ failure' = "none"
  /\ UNCHANGED <<request, attempt, node, forceDirect, emptied, empties, charged,
                 pin, free, balance>>

\* Any other status.
StatusFailure(status) ==
  IF status = 429 THEN "limited"
  ELSE IF status \in {502, 504} THEN "gateway"
  ELSE IF status \in {500, 503} THEN "server"
  ELSE "status"

StatusFails(d, kind) ==
  /\ CallTakes(d)
  /\ \E status \in {400, 429, 500, 502, 503, 504} : kind = StatusFailure(status)
  /\ Fail(kind, BaseMax, d)
  /\ UNCHANGED <<request, attempt, node, emptied, empties, free>>

\* An AppError of the kernel: its status, what its message says, if anything that
\* is looked for, and whether the provider rejected the request.
AppErrors == [status : {400, 429, 500, 502, 503, 504}, rejected : BOOLEAN,
              says : {"", "rate limited", "too busy", "no content", "timeout",
                      "connection refused", "dns", "proxy", "connection error"}]

\* is_provider_rate_limited, is_upstream_busy, and the rest is classify_app_error,
\* which takes every message with the word "proxy" for a failed handshake.
AppFailure(e) ==
  IF e.status = 429 \/ e.says = "rate limited" THEN "limited"
  ELSE IF e.status = 503 /\ e.says = "too busy" THEN "busy"
  ELSE IF e.rejected THEN "invalid"
  ELSE IF e.says = "no content" THEN "empty"
  ELSE IF \/ e.status = 504
          \/ e.says \in {"timeout", "connection refused", "dns", "proxy", "connection error"}
       THEN "transport"
  ELSE IF e.status \in {500, 502, 503} THEN "server"
  ELSE "upstream"

\* max_retries_for_app_error
LastAttempt(kind) ==
  IF kind \in {"limited", "invalid"} THEN 0
  ELSE IF kind = "empty" THEN EmptyLimit(request)
  ELSE BaseMax

CallFails(d, kind) ==
  /\ CallTakes(d)
  /\ \E e \in AppErrors : kind = AppFailure(e)
  /\ Fail(kind, LastAttempt(kind), d)
  /\ empties' = IF kind = "empty" THEN empties + 1 ELSE empties
  /\ UNCHANGED <<request, attempt, node, emptied, free>>

\* The attempt outran the budget that was left.
CallTimesOut ==
  /\ phase = "call"
  /\ Budgeted
  /\ phase' = "failed"
  /\ failure' = "deadline"
  /\ latency' = Remaining
  /\ Spend(Remaining)
  /\ Charge(Remaining)
  /\ Report
  /\ UNCHANGED <<request, attempt, node, forceDirect, emptied, empties, pin, free>>

-----------------------------------------------------------------------------
(* The answer's content *)

\* A precheck that finds nothing may take all the time it has.
ReadTimes ==
  IF phase = "body" THEN Delays
  ELSE {d \in Delays : d <= PrecheckTimeout} \cup {PrecheckTimeout}
Read(await) == phase \in await /\ \E d \in ReadTimes : Spend(d)

\* precheck_stream_first_output found content, a tool call or an error; the
\* metered task takes over.
PeekFinds ==
  /\ Read({"peek"})
  /\ Charge(latency)
  /\ phase' = "stream"
  /\ UNCHANGED <<request, attempt, node, forceDirect, emptied, empties, latency,
                 pin, failure, free, balance>>

\* The body of a non-streaming answer, read without a deadline.
BodyFinds ==
  /\ Read({"body"})
  /\ Charge(latency)
  /\ Report
  /\ phase' = "answered"
  /\ UNCHANGED <<request, attempt, node, forceDirect, emptied, empties, latency,
                 pin, failure, free>>

\* The read fails and call_with_retry returns without a report.
BodyBreaks ==
  /\ Read({"body"})
  /\ phase' = "unread"
  /\ UNCHANGED <<request, attempt, node, forceDirect, emptied, empties, charged,
                 latency, pin, failure, free, balance>>

\* Nothing within the precheck, or a body with no output.
NothingFound == Read({"peek", "body"})

\* A probe is answered locally; the node is reported here and again when the
\* local answer has been streamed.
AnswerLocally ==
  /\ NothingFound
  /\ request.local
  /\ Charge(latency)
  /\ Report
  /\ phase' = "local"
  /\ UNCHANGED <<request, attempt, node, forceDirect, emptied, empties, latency,
                 pin, failure, free>>

\* repeated_large_session_empty_attempts
Repeated == request.tokens >= 100000 /\ empties + 1 >= 2

\* Mutant of EmptyOutput: goes on without a report.
EmptyOutputUnreported ==
  /\ NothingFound
  /\ ~request.local
  /\ failure' = "empty"
  /\ pin' = IF request.tokens < 50000 THEN None ELSE pin
  /\ emptied' = emptied \cup {node}
  /\ empties' = empties + 1
  /\ Charge(latency)
  /\ IF OutOfBudget(latency) \/ attempt >= EmptyLimit(request) \/ Repeated
     THEN phase' = "failed" /\ UNCHANGED attempt
     ELSE phase' = "dispatch" /\ attempt' = attempt + 1
  /\ UNCHANGED <<request, node, forceDirect, latency, free, balance>>

\* The next attempt follows at once, without a backoff.
EmptyOutput ==
  /\ NothingFound
  /\ ~request.local
  /\ failure' = "empty"
  /\ pin' = IF request.tokens < 50000 THEN None ELSE pin
  /\ emptied' = emptied \cup {node}
  /\ empties' = empties + 1
  /\ Report
  /\ Charge(latency)
  /\ IF OutOfBudget(latency) \/ attempt >= EmptyLimit(request) \/ Repeated
     THEN phase' = "failed" /\ UNCHANGED attempt
     ELSE phase' = "dispatch" /\ attempt' = attempt + 1
  /\ UNCHANGED <<request, node, forceDirect, latency, free>>

\* Mutant of Backoff: does not count the attempt.
BackoffUncounted ==
  /\ phase = "backoff"
  /\ phase' = "dispatch"
  /\ UNCHANGED <<request, attempt, node, forceDirect, emptied, empties, charged,
                 latency, pin, failure, free, balance, spent>>

\* Mutant of Backoff: allows one attempt too many.
BackoffPastLimit ==
  /\ phase = "backoff"
  /\ IF attempt <= EmptyLimit(request)
     THEN phase' = "dispatch" /\ attempt' = attempt + 1
     ELSE phase' = "failed" /\ UNCHANGED attempt
  /\ UNCHANGED <<request, node, forceDirect, emptied, empties, charged, latency,
                 pin, failure, free, balance, spent>>

\* smart_backoff.  When the last attempt the loop allows failed with something
\* that could be retried, the request ends here.
Backoff ==
  /\ phase = "backoff"
  /\ IF attempt < EmptyLimit(request)
     THEN phase' = "dispatch" /\ attempt' = attempt + 1
     ELSE phase' = "failed" /\ UNCHANGED attempt
  /\ UNCHANGED <<request, node, forceDirect, emptied, empties, charged, latency,
                 pin, failure, free, balance, spent>>

-----------------------------------------------------------------------------
(* metered_stream_response, a task of its own with a StreamLeaseGuard *)

\* The stream ends: complete, rate limited, empty, broken, or without its client.
\* An empty one clears the pin whatever the session's size, and so do some
\* errors.
StreamEnds ==
  /\ phase \in {"stream", "local"}
  /\ phase' = IF phase = "local" THEN "localDone" ELSE "answered"
  /\ Report
  /\ pin' \in IF phase = "stream" THEN {pin, None} ELSE {pin}
  /\ UNCHANGED <<request, attempt, node, forceDirect, emptied, empties, charged,
                 latency, failure, free, spent>>

\* The client goes away while the handler's future waits for something.
Abandon ==
  /\ phase \in {"wait", "call", "peek", "body", "backoff"}
  /\ phase' = "abandoned"
  /\ UNCHANGED <<request, attempt, node, forceDirect, emptied, empties, charged,
                 latency, pin, failure, free, balance, spent>>

-----------------------------------------------------------------------------
Step ==
  \/ Dispatch
  \/ DispatchAgain
  \/ \E d \in Delays : CallAnswers(d)
  \/ \E d \in Delays, kind \in Failure : StatusFails(d, kind)
  \/ \E d \in Delays, kind \in Failure : CallFails(d, kind)
  \/ CallTimesOut
  \/ PeekFinds
  \/ BodyFinds
  \/ BodyBreaks
  \/ AnswerLocally
  \/ EmptyOutput
  \/ Backoff
  \/ StreamEnds

Next == Step \/ Abandon

\* Every await of the handler and of the metered task ends: calls have a deadline
\* or the timeouts of the HTTP client, sends to the client one of their own.
Spec == Init /\ [][Next]_vars /\ WF_vars(Step)

-----------------------------------------------------------------------------
(* Properties *)

Held(n) == IF node = n /\ phase \in {"call", "peek", "body", "stream"} THEN 1 ELSE 0

\* Over all its attempts a request reports every lease it took exactly once, so
\* that it holds the one of the attempt under way and none when it is over.  Left
\* out are the three ways in which the code breaks this: a client that goes away
\* during an await, a body that cannot be read, and a local answer, which is
\* reported by call_with_retry and again by the metered task.
LeasesSettled ==
  phase \notin {"abandoned", "unread", "localDone"} =>
    \A n \in Nodes :
      balance[n] = IF phase = "local" THEN 0 ELSE Held(n)

\* No attempt is made once the budget is spent on calls: the return for a budget of
\* zero, which would leave the fresh lease unreported, is never reached
\* (provider.rs, attempt_deadline_ms == Some(0)).
BudgetLeft ==
  Budgeted => /\ charged <= Budget(request)
              /\ phase = "call" => charged < Budget(request)

\* Where a request may be sent, and its session after it, whichever retry, pin or
\* fallback decides: without a proxy only when the configuration and the request
\* allow it; to a node that returned nothing only while no other node admits it
\* (manager.rs dispatch_sticky_excluding); and once it has failed with what speaks
\* against its last node, its session is no longer pinned to that node (only a
\* large session that saw no output keeps its pin, for the provider's cache).
DirectOnlyWhenAllowed == node = Direct => AllowDirect /\ request.direct

SpeaksAgainstNode ==
  failure \in Clearing /\ (failure = "empty" => request.tokens < 50000)
FailedNodesLeft ==
  /\ phase = "call" /\ node \in emptied \cap Nodes => free \subseteq emptied
  /\ phase = "failed" /\ SpeaksAgainstNode => pin # node

TargetsSound == DirectOnlyWhenAllowed /\ FailedNodesLeft

\* Every request ends, whatever its attempts meet.
Over == {"answered", "failed", "localDone", "unread", "abandoned"}
RequestEnds == <>(phase \in Over)

\* "Clamp the stream precheck window so a single attempt cannot overrun the retry
\* budget": the calls and prechecks of a streaming request end with its budget, or
\* within the second the clamp grants at least.
AttemptsEndInBudget ==
  request.stream /\ Budgeted => spent <= Budget(request) + 1000
=============================================================================
