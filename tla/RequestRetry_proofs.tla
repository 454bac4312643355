-------------------------- MODULE RequestRetry_proofs --------------------------
(***************************************************************************)
(* What a request of the V4 provider does for every set of nodes, every    *)
(* mix of requests and every configured limit.                             *)
(***************************************************************************)
EXTENDS RequestRetry, TLAPS

\* Every limit of a request is a number.
LEMMA LimitsAreNumbers ==
  ASSUME request \in Requests, charged \in Nat, latency \in Nat
  PROVE  /\ EmptyLimit(request) \in Nat
         /\ Budget(request) \in Nat
         /\ Remaining \in Nat
         /\ PrecheckTimeout \in Nat
<1>1. EmptyLimit(request) \in Nat
  BY LimitsAssumption DEF EmptyLimit, Larger, Smaller
<1>2. Budget(request) \in Nat
  BY LimitsAssumption DEF Budget, Smaller
<1>3. Remaining \in Nat
  BY <1>2 DEF Remaining, Larger
<1>4. PrecheckTimeout \in Nat
  <2>1. Larger(Remaining - latency, 0) \in Nat
    BY <1>3 DEF Larger
  <2>2. Larger(Remaining - latency, 0) \div 1000 \in Nat
    BY <2>1
  <2>. QED
    BY <2>2 DEF PrecheckTimeout, Larger, Smaller
<1>. QED
  BY <1>1, <1>2, <1>3, <1>4

\* The attempts that ended in empty output are among the attempts made.
EmptiesCounted ==
  phase \in {"dispatch", "wait", "call", "peek", "body"} => empties <= attempt

\* An attempt that is under way was sent to a target.
Sent == phase \in {"call", "peek", "body"} => node \in Targets

Typed == TypeOK /\ EmptiesCounted /\ Sent

\* Whatever the pool manager hands out is a node or the direct pseudo-node, and
\* the pin is a node or none.
LEMMA ChoicesTyped ==
  ASSUME TypeOK, NEW f \in SUBSET Nodes,
         NEW choice \in Choices(f) \cup Pinned({}, f)
  PROVE  choice[1] \in Targets /\ choice[2] \in Nodes \cup {None}
BY DEF TypeOK, Choices, Pinned, Unpinned, Sticky, Directly, Targets

\* The clock stays within its bound.
LEMMA SpendTyped ==
  ASSUME spent \in 0..MaxSpent, NEW d \in Nat, Spend(d)
  PROVE  spent' \in 0..MaxSpent
BY LimitsAssumption DEF Spend, Smaller

LEMMA ReadTyped ==
  ASSUME TypeOK, NEW await, Read(await)
  PROVE  spent' \in 0..MaxSpent
<1>1. PICK d \in ReadTimes : Spend(d)
  BY DEF Read
<1>2. d \in Nat
  BY LimitsAreNumbers, DelaysAssumption DEF ReadTimes, TypeOK
<1>. QED
  BY <1>1, <1>2, SpendTyped DEF TypeOK

LEMMA ReportTyped ==
  ASSUME TypeOK, Report
  PROVE  balance' \in [Nodes -> Int]
BY DEF TypeOK, Report

LEMMA SendTyped ==
  ASSUME TypeOK, NEW f \in SUBSET Nodes,
         NEW choice \in Choices(f) \cup Pinned({}, f), Send(choice)
  PROVE  /\ node' \in Targets \cup {None}
         /\ pin' \in Nodes \cup {None}
         /\ balance' \in [Nodes -> Int]
BY ChoicesTyped DEF Send, TypeOK

-----------------------------------------------------------------------------
LEMMA TypingInit == Init => Typed
<1> SUFFICES ASSUME Init PROVE Typed
  OBVIOUS
<1>1. EmptyLimit(request) \in Nat
  BY LimitsAreNumbers DEF Init
<1>2. TypeOK
  <2>1. attempt \in 0..EmptyLimit(request) /\ empties \in 0..(attempt + 1)
    BY <1>1 DEF Init
  <2>2. spent \in 0..MaxSpent
    BY LimitsAssumption DEF Init
  <2>3. phase \in Phase /\ failure \in Failure
    BY DEF Init, Phase, Failure
  <2>4. balance \in [Nodes -> Int] /\ charged \in Nat /\ latency \in Nat
    BY DEF Init
  <2>. QED
    BY <2>1, <2>2, <2>3, <2>4 DEF Init, TypeOK
<1>3. EmptiesCounted /\ Sent
  BY DEF Init, EmptiesCounted, Sent
<1>. QED
  BY <1>2, <1>3 DEF Typed

LEMMA FailTyped ==
  ASSUME Typed, phase = "call", NEW d \in Delays, CallTakes(d),
         NEW kind \in Failure, NEW last \in Nat, Fail(kind, last, d)
  PROVE  /\ phase' \in {"failed", "backoff"}
         /\ forceDirect' \in BOOLEAN
         /\ charged' \in Nat
         /\ latency' \in Nat
         /\ pin' \in Nodes \cup {None}
         /\ failure' \in Failure
         /\ balance' \in [Nodes -> Int]
         /\ spent' \in 0..MaxSpent
<1>1. d \in Nat
  BY DelaysAssumption
<1>2. balance' \in [Nodes -> Int]
  BY ReportTyped DEF Fail, Typed
<1>3. spent' \in 0..MaxSpent
  BY <1>1, SpendTyped DEF CallTakes, Typed, TypeOK
<1>4. forceDirect' \in BOOLEAN
  BY DEF Fail
<1>5. charged' \in Nat /\ latency' \in Nat
  BY <1>1 DEF Fail, Charge, CallTakes, Typed, TypeOK
<1>. QED
  BY <1>2, <1>3, <1>4, <1>5 DEF Fail, EndOr, Typed, TypeOK

LEMMA TypingStep == Typed /\ [Next]_vars => Typed'
<1> SUFFICES ASSUME Typed, [Next]_vars PROVE Typed'
  OBVIOUS
<1> USE DEF Typed
<1>0. EmptyLimit(request) \in Nat /\ Remaining \in Nat /\ PrecheckTimeout \in Nat
  BY LimitsAreNumbers DEF TypeOK
<1>1. CASE Dispatch
  <2>1. /\ free' \in SUBSET Nodes
        /\ node' \in Targets \cup {None}
        /\ pin' \in Nodes \cup {None}
        /\ balance' \in [Nodes -> Int]
    BY <1>1, SendTyped DEF Dispatch, Refuse, TypeOK
  <2>2. /\ phase' \in {"call", "wait", "failed"}
        /\ Sent'
    BY <1>1, ChoicesTyped DEF Dispatch, Send, Refuse, Sent
  <2>3. EmptiesCounted'
    BY <1>1, <2>2 DEF Dispatch, EmptiesCounted
  <2>. QED
    BY <1>1, <2>1, <2>2, <2>3 DEF Dispatch, TypeOK, Phase
<1>2. CASE DispatchAgain
  <2>1. /\ free' \in SUBSET Nodes
        /\ node' \in Targets \cup {None}
        /\ pin' \in Nodes \cup {None}
        /\ balance' \in [Nodes -> Int]
    BY <1>2, SendTyped DEF DispatchAgain, Refuse, TypeOK
  <2>2. /\ phase' \in {"call", "failed"}
        /\ Sent'
    BY <1>2, ChoicesTyped DEF DispatchAgain, Send, Refuse, Sent
  <2>3. EmptiesCounted'
    BY <1>2, <2>2 DEF DispatchAgain, EmptiesCounted
  <2>. QED
    BY <1>2, <2>1, <2>2, <2>3 DEF DispatchAgain, TypeOK, Phase
<1>3. ASSUME NEW d \in Delays, CallAnswers(d) PROVE Typed'
  <2>1. d \in Nat /\ spent' \in 0..MaxSpent
    BY <1>3, SpendTyped, DelaysAssumption DEF CallAnswers, CallTakes, TypeOK
  <2>2. EmptiesCounted' /\ Sent'
    BY <1>3 DEF CallAnswers, CallTakes, EmptiesCounted, Sent
  <2>. QED
    BY <1>3, <2>1, <2>2 DEF CallAnswers, CallTakes, TypeOK, Phase, Failure
<1>4. ASSUME NEW d \in Delays, NEW kind \in Failure, StatusFails(d, kind) PROVE Typed'
  <2>1. /\ phase' \in {"failed", "backoff"}
        /\ forceDirect' \in BOOLEAN /\ charged' \in Nat /\ latency' \in Nat
        /\ pin' \in Nodes \cup {None} /\ failure' \in Failure
        /\ balance' \in [Nodes -> Int] /\ spent' \in 0..MaxSpent
    BY <1>4, FailTyped, LimitsAssumption DEF StatusFails, CallTakes
  <2>. QED
    BY <1>4, <2>1 DEF StatusFails, TypeOK, Phase, EmptiesCounted, Sent
<1>5. ASSUME NEW d \in Delays, NEW kind \in Failure, CallFails(d, kind) PROVE Typed'
  <2>1. LastAttempt(kind) \in Nat
    BY <1>0, LimitsAssumption DEF LastAttempt
  <2>2. /\ phase' \in {"failed", "backoff"}
        /\ forceDirect' \in BOOLEAN /\ charged' \in Nat /\ latency' \in Nat
        /\ pin' \in Nodes \cup {None} /\ failure' \in Failure
        /\ balance' \in [Nodes -> Int] /\ spent' \in 0..MaxSpent
    BY <1>5, <2>1, FailTyped DEF CallFails, CallTakes
  <2>3. empties' \in 0..(attempt' + 1)
    BY <1>5 DEF CallFails, CallTakes, EmptiesCounted, TypeOK
  <2>. QED
    BY <1>5, <2>2, <2>3 DEF CallFails, TypeOK, Phase, EmptiesCounted, Sent
<1>6. CASE CallTimesOut
  <2>1. spent' \in 0..MaxSpent
    BY <1>0, <1>6, SpendTyped DEF CallTimesOut, TypeOK
  <2>2. balance' \in [Nodes -> Int]
    BY <1>6, ReportTyped DEF CallTimesOut
  <2>. QED
    BY <1>0, <1>6, <2>1, <2>2
       DEF CallTimesOut, TypeOK, Charge, Phase, Failure, EmptiesCounted, Sent
<1>7. CASE PeekFinds
  BY <1>7, ReadTyped DEF PeekFinds, TypeOK, Charge, Phase, EmptiesCounted, Sent
<1>8. CASE BodyFinds
  <2>1. spent' \in 0..MaxSpent /\ balance' \in [Nodes -> Int]
    BY <1>8, ReadTyped, ReportTyped DEF BodyFinds
  <2>. QED
    BY <1>8, <2>1 DEF BodyFinds, TypeOK, Charge, Phase, EmptiesCounted, Sent
<1>9. CASE BodyBreaks
  BY <1>9, ReadTyped DEF BodyBreaks, TypeOK, Phase, EmptiesCounted, Sent
<1>10. CASE AnswerLocally
  <2>1. spent' \in 0..MaxSpent /\ balance' \in [Nodes -> Int]
    BY <1>10, ReadTyped, ReportTyped DEF AnswerLocally, NothingFound
  <2>. QED
    BY <1>10, <2>1 DEF AnswerLocally, TypeOK, Charge, Phase, EmptiesCounted, Sent
<1>11. CASE EmptyOutput
  <2>1. spent' \in 0..MaxSpent /\ balance' \in [Nodes -> Int]
    BY <1>11, ReadTyped, ReportTyped DEF EmptyOutput, NothingFound
  <2>2. phase \in {"peek", "body"}
    BY <1>11 DEF EmptyOutput, NothingFound, Read
  <2>3. /\ attempt' \in 0..EmptyLimit(request)
        /\ empties' \in 0..(attempt' + 1)
        /\ EmptiesCounted'
        /\ phase' \in {"failed", "dispatch"}
    BY <1>0, <1>11, <2>2 DEF EmptyOutput, TypeOK, EmptiesCounted
  <2>4. emptied' \in SUBSET Targets
    BY <1>11, <2>2 DEF EmptyOutput, TypeOK, Sent
  <2>. QED
    <3>1. Sent'
      BY <2>3 DEF Sent
    <3>2. /\ request' = request /\ node' = node /\ forceDirect' = forceDirect
          /\ latency' = latency /\ free' = free /\ failure' = "empty"
          /\ pin' \in Nodes \cup {None}
          /\ charged' \in Nat
      BY <1>11 DEF EmptyOutput, TypeOK, Charge
    <3>3. failure' \in Failure /\ phase' \in Phase
      BY <2>3, <3>2 DEF Failure, Phase
    <3>4. TypeOK'
      BY <2>1, <2>3, <2>4, <3>2, <3>3 DEF TypeOK
    <3>. QED
      BY <2>3, <3>1, <3>4
<1>12. CASE Backoff
  BY <1>0, <1>12 DEF Backoff, TypeOK, Phase, EmptiesCounted, Sent
<1>13. CASE StreamEnds
  <2>1. balance' \in [Nodes -> Int]
    BY <1>13, ReportTyped DEF StreamEnds
  <2>. QED
    BY <1>13, <2>1 DEF StreamEnds, TypeOK, Phase, EmptiesCounted, Sent
<1>14. CASE Abandon
  BY <1>14 DEF Abandon, TypeOK, Phase, EmptiesCounted, Sent
<1>15. CASE UNCHANGED vars
  BY <1>15 DEF vars, TypeOK, EmptiesCounted, Sent, EmptyLimit
<1>. QED
  BY <1>1, <1>2, <1>3, <1>4, <1>5, <1>6, <1>7, <1>8, <1>9, <1>10, <1>11, <1>12,
     <1>13, <1>14, <1>15 DEF Next, Step

LEMMA Typing == Spec => []Typed
BY TypingInit, TypingStep, PTL DEF Spec

\* The types of the model hold of every request (call_with_retry): in particular
\* no request makes more attempts than its limit allows.
THEOREM RetryTypeCorrect == Spec => []TypeOK
BY Typing, PTL DEF Typed

-----------------------------------------------------------------------------
(* Leases *)

\* A report of the attempt under way gives back the lease it holds.
LEMMA ReportSettles ==
  ASSUME TypeOK, LeasesSettled, phase \in {"call", "peek", "body", "stream"},
         Report
  PROVE  \A n \in Nodes : balance'[n] = 0
BY DEF TypeOK, LeasesSettled, Held, Report

LEMMA LeasesInit == Init => LeasesSettled
BY NodesAssumption DEF Init, LeasesSettled, Held

LEMMA LeasesStep == Typed /\ LeasesSettled /\ [Next]_vars => LeasesSettled'
<1> SUFFICES ASSUME Typed, LeasesSettled, [Next]_vars PROVE LeasesSettled'
  OBVIOUS
<1>0. TypeOK
  BY DEF Typed
<1>1. CASE Dispatch \/ DispatchAgain
  <2>1. \A n \in Nodes : balance[n] = 0
    BY <1>1 DEF LeasesSettled, Held, Dispatch, DispatchAgain
  <2>2. CASE phase' # "call"
    <3>1. balance' = balance /\ phase' \in {"wait", "failed"}
      BY <1>1, <2>2 DEF Dispatch, DispatchAgain, Refuse, Send
    <3>. QED
      BY <2>1, <3>1 DEF LeasesSettled, Held
  <2>3. CASE \E choice \in Choices(free') \cup Pinned({}, free') : Send(choice)
    <3>1. PICK choice : Send(choice)
      BY <2>3
    <3>2. \A n \in Nodes : balance'[n] = IF choice[1] = n THEN 1 ELSE 0
      BY <1>0, <2>1, <3>1 DEF Send, TypeOK
    <3>. QED
      BY <3>1, <3>2 DEF Send, LeasesSettled, Held
  <2>. QED
    BY <1>1, <2>2, <2>3 DEF Dispatch, DispatchAgain, Refuse
<1>2. ASSUME NEW d \in Delays, CallAnswers(d) PROVE LeasesSettled'
  BY <1>2 DEF CallAnswers, CallTakes, LeasesSettled, Held
<1>3. ASSUME NEW d \in Delays, NEW kind \in Failure,
             StatusFails(d, kind) \/ CallFails(d, kind)
      PROVE  LeasesSettled'
  <2>0. CallTakes(d) /\ node' = node /\ \E last : Fail(kind, last, d)
    BY <1>3 DEF StatusFails, CallFails
  <2>1. phase = "call" /\ Report /\ phase' \in {"failed", "backoff"} /\ node' = node
    BY <2>0 DEF CallTakes, Fail, EndOr
  <2>2. \A n \in Nodes : balance'[n] = 0
    BY <1>0, <2>1, ReportSettles
  <2>. QED
    BY <2>1, <2>2 DEF LeasesSettled, Held
<1>4. CASE CallTimesOut
  <2>1. phase = "call" /\ Report /\ phase' = "failed"
    BY <1>4 DEF CallTimesOut
  <2>2. \A n \in Nodes : balance'[n] = 0
    BY <1>0, <2>1, ReportSettles
  <2>. QED
    BY <2>1, <2>2 DEF LeasesSettled, Held
<1>5. CASE PeekFinds
  BY <1>5 DEF PeekFinds, Read, LeasesSettled, Held
<1>6. CASE BodyFinds \/ AnswerLocally \/ EmptyOutput
  <2>1. /\ phase \in {"peek", "body"} /\ Report
        /\ phase' \in {"answered", "local", "failed", "dispatch"}
    BY <1>6 DEF BodyFinds, AnswerLocally, EmptyOutput, NothingFound, Read
  <2>. QED
    BY <1>0, <2>1, ReportSettles DEF LeasesSettled, Held
<1>7. CASE StreamEnds
  <2>1. CASE phase = "stream"
    BY <1>0, <1>7, <2>1, ReportSettles DEF StreamEnds, LeasesSettled, Held
  <2>2. CASE phase = "local"
    BY <1>7, <2>2 DEF StreamEnds, LeasesSettled
  <2>. QED
    BY <1>7, <2>1, <2>2 DEF StreamEnds
<1>8. CASE Backoff
  BY <1>8 DEF Backoff, LeasesSettled, Held
<1>9. CASE BodyBreaks \/ Abandon
  BY <1>9 DEF BodyBreaks, Abandon, LeasesSettled
<1>10. CASE UNCHANGED vars
  BY <1>10 DEF vars, LeasesSettled, Held
<1>. QED
  BY <1>1, <1>2, <1>3, <1>4, <1>5, <1>6, <1>7, <1>8, <1>9, <1>10 DEF Next, Step

\* For any number of nodes, attempts and failures: every lease a request took is
\* reported exactly once, but for the three ways out that LeasesSettled names.
THEOREM LeasesAreSettled == Spec => []LeasesSettled
BY Typing, LeasesInit, LeasesStep, PTL DEF Spec

-----------------------------------------------------------------------------
(* The budget *)

\* A request that may make another call has budget left, and the call it is
\* reading the answer of did not exceed what was left.
InBudget ==
  Budgeted =>
    /\ charged <= Budget(request)
    /\ phase \in {"dispatch", "wait", "call", "peek", "body", "backoff"}
         => charged < Budget(request)
    /\ phase \in {"peek", "body"} => charged + latency <= Budget(request)

LEMMA BudgetInit == Init => InBudget
<1> SUFFICES ASSUME Init PROVE InBudget
  OBVIOUS
<1>1. Budget(request) \in Nat
  BY LimitsAreNumbers DEF Init
<1>. QED
  BY <1>1 DEF Init, InBudget, Budgeted

LEMMA BudgetStep == Typed /\ InBudget /\ [Next]_vars => InBudget'
<1> SUFFICES ASSUME Typed, InBudget, [Next]_vars, Budgeted'
             PROVE  InBudget'
  BY DEF InBudget
<1> DEFINE B == Budget(request)
<1>0. /\ TypeOK /\ B \in Nat /\ Remaining \in Nat
      /\ charged \in Nat /\ latency \in Nat
  BY LimitsAreNumbers DEF Typed, TypeOK
<1>1. request' = request
  BY DEF vars, Next, Step, Dispatch, DispatchAgain, CallAnswers, StatusFails,
         CallFails, CallTimesOut, PeekFinds, BodyFinds, BodyBreaks, AnswerLocally,
         EmptyOutput, Backoff, StreamEnds, Abandon
<1>2. Budget(request)' = B /\ Budgeted
  BY <1>1 DEF Budget, Budgeted
<1>3. /\ charged <= B
      /\ phase \in {"dispatch", "wait", "call", "peek", "body", "backoff"}
           => charged < B
      /\ phase \in {"peek", "body"} => charged + latency <= B
  BY <1>2 DEF InBudget
<1> SUFFICES /\ charged' <= B
             /\ phase' \in {"dispatch", "wait", "call", "peek", "body", "backoff"}
                  => charged' < B
             /\ phase' \in {"peek", "body"} => charged' + latency' <= B
  BY <1>2 DEF InBudget
<1>4. charged < B => Remaining = B - charged
  BY <1>0 DEF Remaining, Larger
<1>5. CASE Dispatch \/ DispatchAgain
  <2>1. phase' \in {"call", "wait", "failed"}
    BY <1>5 DEF Dispatch, DispatchAgain, Send, Refuse
  <2>2. charged' = charged /\ phase \in {"dispatch", "wait"}
    BY <1>5 DEF Dispatch, DispatchAgain
  <2>. QED
    BY <1>3, <2>1, <2>2
<1>6. ASSUME NEW d \in Delays, CallAnswers(d)
      PROVE  charged' = charged /\ charged < B /\ latency' <= B - charged
  BY <1>2, <1>3, <1>4, <1>6 DEF CallAnswers, CallTakes
<1>7. ASSUME NEW d \in Delays, NEW kind \in Failure,
             StatusFails(d, kind) \/ CallFails(d, kind)
      PROVE  /\ charged' <= B
             /\ phase' \in {"failed", "backoff"}
             /\ phase' = "backoff" => charged' < B
  <2>0. CallTakes(d) /\ \E last : Fail(kind, last, d)
    BY <1>7 DEF StatusFails, CallFails
  <2>1. d \in Nat /\ d <= B - charged /\ charged' = charged + d
    BY <1>2, <1>3, <1>4, <2>0, DelaysAssumption DEF CallTakes, Fail, Charge
  <2>2. phase' \in {"failed", "backoff"} /\ (phase' = "backoff" => ~OutOfBudget(d))
    BY <2>0 DEF Fail, EndOr
  <2>. QED
    BY <1>0, <1>2, <2>1, <2>2 DEF OutOfBudget
<1>8. CASE CallTimesOut
  BY <1>0, <1>3, <1>4, <1>8 DEF CallTimesOut, Charge
<1>9. CASE PeekFinds \/ BodyFinds \/ AnswerLocally
  <2>1. /\ charged' = charged + latency
        /\ phase \in {"peek", "body"}
        /\ phase' \in {"stream", "answered", "local"}
    BY <1>9 DEF PeekFinds, BodyFinds, AnswerLocally, NothingFound, Read, Charge
  <2>. QED
    BY <1>0, <1>3, <2>1
<1>10. CASE EmptyOutput
  <2>1. /\ charged' = charged + latency
        /\ phase \in {"peek", "body"}
        /\ phase' \in {"failed", "dispatch"}
        /\ phase' = "dispatch" => ~OutOfBudget(latency)
    BY <1>10 DEF EmptyOutput, NothingFound, Read, Charge
  <2>. QED
    BY <1>0, <1>2, <1>3, <2>1 DEF OutOfBudget
<1>11. CASE Backoff
  BY <1>3, <1>11 DEF Backoff
<1>12. CASE BodyBreaks \/ StreamEnds \/ Abandon
  BY <1>3, <1>12 DEF BodyBreaks, StreamEnds, Abandon
<1>13. CASE UNCHANGED vars
  BY <1>3, <1>13 DEF vars
<1>14. ASSUME NEW d \in Delays, CallAnswers(d)
       PROVE  /\ charged' <= B
              /\ charged' < B
              /\ charged' + latency' <= B
  <2>1. latency' \in Nat
    BY <1>14, DelaysAssumption DEF CallAnswers, CallTakes
  <2>. QED
    BY <1>0, <1>6, <1>14, <2>1
<1>. QED
  BY <1>5, <1>7, <1>8, <1>9, <1>10, <1>11, <1>12, <1>13, <1>14 DEF Next, Step

\* With any budget and any latencies, no call starts on an empty budget: the exit
\* that would leave its lease unreported is dead code.
THEOREM CallsStartInBudget == Spec => []BudgetLeft
<1>1. InBudget => BudgetLeft
  BY DEF InBudget, BudgetLeft
<1>. QED
  BY <1>1, Typing, BudgetInit, BudgetStep, PTL DEF Spec

-----------------------------------------------------------------------------
(* Going without a proxy *)

\* A retry is told to go around the nodes only where that is allowed.
DirectInv ==
  /\ DirectOnlyWhenAllowed
  /\ forceDirect => AllowDirect /\ request.direct

\* The pool manager hands out the direct pseudo-node only where it is allowed.
LEMMA DirectChoice ==
  ASSUME TypeOK, DirectInv, NEW f \in SUBSET Nodes,
         NEW choice \in Choices(f) \cup Pinned({}, f), choice[1] = Direct
  PROVE  AllowDirect /\ request.direct
BY NodesAssumption
   DEF TypeOK, DirectInv, DirectOnlyWhenAllowed, Choices, Pinned, Unpinned, Sticky,
       Directly

LEMMA DirectStep == Typed /\ DirectInv /\ [Next]_vars => DirectInv'
<1> SUFFICES ASSUME Typed, DirectInv, [Next]_vars PROVE DirectInv'
  OBVIOUS
<1>0. TypeOK
  BY DEF Typed
<1>1. CASE Dispatch \/ DispatchAgain
  <2>1. request' = request /\ free' \in SUBSET Nodes
    BY <1>1 DEF Dispatch, DispatchAgain
  <2>2. forceDirect' => forceDirect
    BY <1>1 DEF Dispatch, DispatchAgain
  <2>3. node' = Direct => AllowDirect /\ request.direct
    <3>1. CASE node' = node
      BY <3>1 DEF DirectInv, DirectOnlyWhenAllowed
    <3>2. CASE \E choice \in Choices(free') \cup Pinned({}, free') : node' = choice[1]
      BY <1>0, <2>1, <3>2, DirectChoice
    <3>. QED
      BY <1>1, <3>1, <3>2 DEF Dispatch, DispatchAgain, Send, Refuse
  <2>. QED
    BY <2>1, <2>2, <2>3 DEF DirectInv, DirectOnlyWhenAllowed
<1>2. ASSUME NEW d \in Delays, NEW kind \in Failure,
             StatusFails(d, kind) \/ CallFails(d, kind)
      PROVE  DirectInv'
  <2>1. request' = request /\ node' = node /\ \E last : Fail(kind, last, d)
    BY <1>2 DEF StatusFails, CallFails
  <2>2. forceDirect' => AllowDirect /\ request.direct
    BY <2>1 DEF Fail
  <2>. QED
    BY <2>1, <2>2 DEF DirectInv, DirectOnlyWhenAllowed
<1>3. CASE /\ \A d \in Delays : ~CallAnswers(d)
           /\ ~CallTimesOut /\ ~PeekFinds /\ ~BodyFinds /\ ~BodyBreaks
           /\ ~AnswerLocally /\ ~EmptyOutput /\ ~Backoff /\ ~StreamEnds
           /\ ~Abandon /\ ~UNCHANGED vars
  BY <1>1, <1>2, <1>3 DEF Next, Step
<1>4. CASE request' = request /\ node' = node /\ forceDirect' = forceDirect
  BY <1>4 DEF DirectInv, DirectOnlyWhenAllowed
<1>. QED
  BY <1>3, <1>4
     DEF CallAnswers, CallTimesOut, PeekFinds, BodyFinds, BodyBreaks, AnswerLocally,
         EmptyOutput, Backoff, StreamEnds, Abandon, vars

-----------------------------------------------------------------------------
(* Where a request is sent *)

\* Between two attempts, and when it is over, a request that failed with what
\* speaks against its node has cleared the pin.
TargetsInv ==
  /\ DirectInv
  /\ phase = "wait" => emptied = {}
  /\ phase = "call" /\ node \in emptied \cap Nodes => free \subseteq emptied
  /\ phase \in {"dispatch", "wait", "backoff", "failed"} /\ SpeaksAgainstNode =>
       pin = None /\ node \in Targets

\* The pool manager hands out a node that returned nothing only when no other
\* node admits the request.
LEMMA EmptiedLast ==
  ASSUME TypeOK, NEW f \in SUBSET Nodes, NEW choice \in Choices(f),
         choice[1] \in emptied \cap Nodes
  PROVE  f \subseteq emptied
<1>1. CASE forceDirect
  BY <1>1, NodesAssumption DEF Choices, Directly
<1>2. CASE ~forceDirect /\ Pinned(emptied, f) # {}
  <2>1. choice \in Pinned(emptied, f)
    BY <1>2 DEF Choices
  <2>2. choice[1] = Direct \/ choice[1] \in f \ emptied
    BY <2>1 DEF Pinned, Unpinned
  <2>. QED
    BY <2>2, NodesAssumption
<1>3. CASE Pinned(emptied, f) = {}
  <2>1. ASSUME NEW n \in f \ emptied PROVE FALSE
    <3>1. <<n, n>> \in Unpinned(emptied, f)
      BY <2>1 DEF Unpinned
    <3>2. pin \notin f \ emptied
      BY <1>3 DEF Pinned
    <3>. QED
      BY <1>3, <3>1, <3>2 DEF Pinned
  <2>. QED
    BY <2>1
<1>. QED
  BY <1>1, <1>2, <1>3

LEMMA TargetsStep == Typed /\ TargetsInv /\ [Next]_vars => TargetsInv'
<1> SUFFICES ASSUME Typed, TargetsInv, [Next]_vars PROVE TargetsInv'
  OBVIOUS
<1>0. TypeOK /\ DirectInv'
  BY DirectStep DEF Typed, TargetsInv
<1> USE DEF TargetsInv, SpeaksAgainstNode
<1>1. CASE Dispatch
  <2>1. /\ UNCHANGED <<request, emptied, failure>>
        /\ phase = "dispatch" /\ free' \in SUBSET Nodes
    BY <1>1 DEF Dispatch
  <2>2. ASSUME NEW choice \in Choices(free'), Send(choice) PROVE TargetsInv'
    <3>1. phase' = "call" /\ node' = choice[1]
      BY <2>2 DEF Send
    <3>2. node' \in emptied \cap Nodes => free' \subseteq emptied
      BY <1>0, <2>1, <2>2, <3>1, EmptiedLast
    <3>. QED
      BY <1>0, <2>1, <3>1, <3>2
  <2>3. ASSUME UNCHANGED <<node, pin>>, phase' = "failed" \/ (phase' = "wait" /\ emptied = {})
        PROVE  TargetsInv'
    BY <1>0, <2>1, <2>3
  <2>. QED
    BY <1>1, <2>2, <2>3 DEF Dispatch, Refuse
<1>2. CASE DispatchAgain
  BY <1>0, <1>2 DEF DispatchAgain, Send, Refuse
<1>3. ASSUME NEW d \in Delays, NEW kind \in Failure,
             StatusFails(d, kind) \/ CallFails(d, kind)
      PROVE  TargetsInv'
  <2>1. PICK last : CallTakes(d) /\ Fail(kind, last, d) /\ UNCHANGED <<request, node>>
    <3>1. CASE StatusFails(d, kind)
      BY <3>1 DEF StatusFails
    <3>2. CASE CallFails(d, kind)
      BY <3>2 DEF CallFails
    <3>. QED
      BY <1>3, <3>1, <3>2
  <2>2. phase = "call" /\ phase' \in {"failed", "backoff"}
    BY <2>1 DEF CallTakes, Fail, EndOr
  <2>3. failure' = kind /\ (kind \in Clearing => pin' = None)
    BY <2>1 DEF Fail
  <2>4. node \in Targets
    BY <2>2 DEF Typed, Sent
  <2>. QED
    BY <1>0, <2>1, <2>2, <2>3, <2>4
<1>4. CASE EmptyOutput
  <2>1. /\ phase \in {"peek", "body"} /\ phase' \in {"failed", "dispatch"}
        /\ UNCHANGED <<request, node>>
        /\ request.tokens < 50000 => pin' = None
        /\ failure' = "empty"
    BY <1>4 DEF EmptyOutput, NothingFound, Read
  <2>2. node \in Targets
    BY <2>1 DEF Typed, Sent
  <2>. QED
    BY <1>0, <2>1, <2>2
<1>5. CASE CallTimesOut
  <2>1. phase' = "failed" /\ failure' = "deadline"
    BY <1>5 DEF CallTimesOut
  <2>. QED
    BY <1>0, <2>1 DEF Clearing
<1>6. CASE Backoff
  BY <1>0, <1>6 DEF Backoff
<1>7. ASSUME \/ \E d \in Delays : CallAnswers(d)
             \/ PeekFinds \/ BodyFinds \/ BodyBreaks \/ AnswerLocally \/ StreamEnds \/ Abandon
      PROVE  TargetsInv'
  <2>1. phase' \notin {"dispatch", "wait", "backoff", "failed", "call"}
    BY <1>7 DEF CallAnswers, PeekFinds, BodyFinds, BodyBreaks, AnswerLocally, StreamEnds, Abandon
  <2>. QED
    BY <1>0, <2>1
<1>8. CASE UNCHANGED vars
  BY <1>0, <1>8 DEF vars
<1>. QED
  BY <1>1, <1>2, <1>3, <1>4, <1>5, <1>6, <1>7, <1>8 DEF Next, Step

\* For any nodes, any requests and any failures: nobody is sent around the nodes
\* without leave, back to a node that returned nothing while another admits it, or
\* leaves its session pinned to the node that failed it.
THEOREM TargetsAreSound == Spec => []TargetsSound
<1>1. Init => TargetsInv
  BY NodesAssumption
     DEF Init, TargetsInv, DirectInv, DirectOnlyWhenAllowed, SpeaksAgainstNode, Clearing
<1>2. TargetsInv => TargetsSound
  BY NodesAssumption DEF TargetsInv, TargetsSound, DirectInv, FailedNodesLeft, Targets
<1>. QED
  BY <1>1, <1>2, Typing, TargetsStep, PTL DEF Spec
=============================================================================
