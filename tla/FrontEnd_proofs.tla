--------------------------- MODULE FrontEnd_proofs ---------------------------
(***************************************************************************)
(* For any requests, slots and classification: every lane counts exactly   *)
(* its living permits, and never has more of them than slots.  For any     *)
(* tables, discovered models, allowlist and mode: what is listed resolves. *)
(***************************************************************************)
EXTENDS FrontEnd, FiniteSetTheorems, TLAPS

LEMMA MaxPositive == \A k \in LaneKind : Max(k) \in Nat \ {0}
BY SlotsAssumption DEF Max

LEMMA ClassifiedKind == \A q \in Profile : Classified(q) \in LaneKind
BY DEF Classified, ChatLane, LaneKind

LEMMA HoldersFinite ==
  \A k \in LaneKind : /\ IsFiniteSet(Holders(k))
                      /\ Cardinality(Holders(k)) \in Nat
<1> TAKE k \in LaneKind
<1>1. Holders(k) \subseteq Requests
  BY DEF Holders
<1> QED
  BY <1>1, FS_Subset, FS_CardinalityType, RequestsAssumption

-----------------------------------------------------------------------------
(* Types *)

\* A task sleeps only while it has polls left: without this the poll count could
\* pass its bound.
SleepersMayPoll == \A r \in Requests : pc[r] = "sleep" => waited[r] < Polls

Inv == TypeOK /\ SleepersMayPoll /\ CountExact

USE DEF PC, Trying, Holding

\* A task that changes nothing but its own place in the loop, and is neither
\* before nor after it a holder, leaves every lane's count exact.
LEMMA LoopStep ==
  ASSUME Inv, NEW r \in Requests, NEW step \in PC,
         pc[r] \notin Holding, step \notin Holding,
         inFlight' = inFlight, pc' = [pc EXCEPT ![r] = step],
         lane' \in [Requests -> LaneKind],
         \A q \in Requests \ {r} : lane'[q] = lane[q]
  PROVE  CountExact' /\ \A k \in LaneKind : UNCHANGED Holders(k)
<1>1. \A k \in LaneKind : Holders(k)' = Holders(k)
  BY DEF Inv, TypeOK, Holders
<1> QED
  BY <1>1 DEF Inv, CountExact

\* A successful exchange adds the task to the holders of its lane alone.
LEMMA SwapStep ==
  ASSUME Inv, NEW r \in Requests, Swap(r)
  PROVE  /\ CountExact'
         /\ \A k \in LaneKind : Lane(k)!Next \/ UNCHANGED Holders(k)
<1> DEFINE k0 == lane[r]
<1>0. k0 \in LaneKind /\ r \notin Holders(k0)
  BY DEF Inv, TypeOK, Swap, Free, Holders
<1>2. \A k \in LaneKind : k # k0 => Holders(k)' = Holders(k)
  BY DEF Inv, TypeOK, Swap, Leaves, GoTo, Holders
<1>5. CountExact'
  <2> SUFFICES ASSUME NEW k \in LaneKind
               PROVE  inFlight'[k] = Cardinality(Holders(k)')
    BY DEF CountExact
  <2>1. inFlight[k] = Cardinality(Holders(k))
    BY DEF Inv, CountExact
  <2>2. CASE k = k0
    <3>1. Holders(k)' = Holders(k) \cup {r} /\ r \notin Holders(k)
      BY <2>2 DEF Inv, TypeOK, Swap, Free, Leaves, GoTo, Holders
    <3>2. Cardinality(Holders(k)') = Cardinality(Holders(k)) + 1
      BY <3>1, HoldersFinite, FS_AddElement
    <3> QED
      BY <2>1, <2>2, <3>2 DEF Inv, TypeOK, Swap
  <2>3. CASE k # k0
    BY <2>1, <2>3, <1>2 DEF Inv, TypeOK, Swap
  <2> QED
    BY <2>2, <2>3
<1>6. ASSUME NEW k \in LaneKind, k = k0
      PROVE  Lane(k)!Next
  <2>1. Lane(k)!Cardinality(Holders(k)) = Cardinality(Holders(k))
    BY DEF Cardinality, Lane!Cardinality
  <2>2. Cardinality(Holders(k)) < Max(k)
    BY <1>6 DEF Inv, CountExact, Swap, Free
  <2>3. Holders(k)' = Holders(k) \cup {r} /\ r \notin Holders(k)
    BY <1>0, <1>6 DEF Inv, TypeOK, Swap, Leaves, GoTo, Holders
  <2>4. Lane(k)!Grant(r, {})
    BY <2>1, <2>2, <2>3 DEF Lane!Grant
  <2> QED
    BY <2>4 DEF Lane!Next
<1> QED
  BY <1>2, <1>5, <1>6

\* A drop takes the task from the holders of its lane alone.
LEMMA DropStep ==
  ASSUME Inv, NEW r \in Requests, Drop(r)
  PROVE  /\ inFlight' \in [LaneKind -> Nat]
         /\ CountExact'
         /\ \A k \in LaneKind : Lane(k)!Next \/ UNCHANGED Holders(k)
<1> DEFINE k0 == lane[r]
<1>0. k0 \in LaneKind /\ r \in Holders(k0)
  BY DEF Inv, TypeOK, Drop, Holders
<1>2. \A k \in LaneKind : k # k0 => Holders(k)' = Holders(k)
  BY DEF Inv, TypeOK, Drop, GoTo, Holders
<1>3. \A k \in LaneKind : /\ inFlight'[k] = Cardinality(Holders(k)')
                          /\ inFlight'[k] \in Nat
  <2> TAKE k \in LaneKind
  <2>1. inFlight[k] = Cardinality(Holders(k)) /\ inFlight[k] \in Nat
    BY DEF Inv, TypeOK, CountExact
  <2>2. CASE k = k0
    <3>1. Holders(k)' = Holders(k) \ {r} /\ r \in Holders(k)
      BY <2>2 DEF Inv, TypeOK, Drop, GoTo, Holders
    <3>2. /\ Cardinality(Holders(k)') = Cardinality(Holders(k)) - 1
          /\ Cardinality(Holders(k)') \in Nat
      <4>1. IsFiniteSet(Holders(k)')
        BY <3>1, HoldersFinite, FS_Subset
      <4> QED
        BY <3>1, <4>1, HoldersFinite, FS_RemoveElement, FS_CardinalityType
    <3> QED
      BY <2>1, <2>2, <3>2 DEF Inv, TypeOK, Drop
  <2>3. CASE k # k0
    BY <2>1, <2>3, <1>2 DEF Inv, TypeOK, Drop
  <2> QED
    BY <2>2, <2>3
<1>4. inFlight' \in [LaneKind -> Nat]
  BY <1>3 DEF Inv, TypeOK, Drop
<1>5. ASSUME NEW k \in LaneKind, k = k0
      PROVE  Lane(k)!Next
  <2>1. Holders(k)' = Holders(k) \ {r} /\ r \in Holders(k)
    BY <1>0, <1>5 DEF Inv, TypeOK, Drop, GoTo, Holders
  <2>2. Lane(k)!Lapse({r})
    BY <2>1 DEF Lane!Lapse
  <2> QED
    BY <2>1, <2>2 DEF Lane!Next
<1> QED
  BY <1>2, <1>3, <1>4, <1>5 DEF CountExact

\* One step of any task keeps the counts exact and every lane within its slots.
LEMMA Step ==
  ASSUME Inv, [Next]_vars
  PROVE  Inv' /\ \A k \in LaneKind : Lane(k)!Next \/ UNCHANGED Holders(k)
<1> DEFINE Goal == Inv' /\ \A k \in LaneKind : Lane(k)!Next \/ UNCHANGED Holders(k)
<1>1. CASE UNCHANGED vars
  <2>1. \A k \in LaneKind : Holders(k)' = Holders(k)
    BY <1>1 DEF vars, Holders
  <2> QED
    BY <1>1, <2>1 DEF vars, Inv, TypeOK, SleepersMayPoll, CountExact
<1>2. ASSUME NEW r \in Requests, NEW q \in Profiles, Arrive(r, q)
      PROVE  Goal
  <2>1. TypeOK' /\ SleepersMayPoll'
    BY <1>2, ClassifiedKind, ProfilesAssumption
    DEF Inv, TypeOK, SleepersMayPoll, Arrive, GoTo
  <2> QED
    BY <1>2, <2>1, LoopStep DEF Arrive, GoTo, Inv, TypeOK
<1>3. ASSUME NEW r \in Requests,
             Load(r) \/ SwapFails(r) \/ Sleep(r) \/ Wake(r) \/ Refuse(r) \/ GiveUp(r)
      PROVE  Goal
  <2>1. TypeOK' /\ SleepersMayPoll'
    BY <1>3, PollsAssumption
    DEF Inv, TypeOK, SleepersMayPoll, Load, SwapFails, Free, Sleep, Full, Wake, Refuse, GiveUp,
        Leaves, GoTo
  <2>2. \E step \in PC \ Holding :
          inFlight' = inFlight /\ pc[r] \notin Holding
          /\ pc' = [pc EXCEPT ![r] = step] /\ lane' = lane
    BY <1>3
    DEF Inv, TypeOK, Load, SwapFails, Free, Sleep, Full, Wake, Refuse, GiveUp,
        Leaves, GoTo
  <2> QED
    BY <2>1, <2>2, LoopStep DEF Inv, TypeOK
<1>4. ASSUME NEW r \in Requests, Swap(r)
      PROVE  Goal
  <2>1. TypeOK' /\ SleepersMayPoll'
    BY <1>4, PollsAssumption DEF Inv, TypeOK, SleepersMayPoll, Swap, Leaves, GoTo
  <2> QED
    BY <1>4, <2>1, SwapStep DEF Inv
<1>5. ASSUME NEW r \in Requests, Attach(r)
      PROVE  Goal
  <2>1. TypeOK' /\ SleepersMayPoll'
    BY <1>5 DEF Inv, TypeOK, SleepersMayPoll, Attach, GoTo
  <2>2. \A k \in LaneKind : Holders(k)' = Holders(k)
    BY <1>5 DEF Inv, TypeOK, Attach, GoTo, Holders
  <2> QED
    BY <1>5, <2>1, <2>2 DEF Inv, CountExact, Attach
<1>6. ASSUME NEW r \in Requests, Drop(r)
      PROVE  Goal
  <2>1. TypeOK' /\ SleepersMayPoll'
    BY <1>6, DropStep DEF Inv, TypeOK, SleepersMayPoll, Drop, GoTo
  <2> QED
    BY <1>6, <2>1, DropStep DEF Inv
<1> QED
  BY <1>1, <1>2, <1>3, <1>4, <1>5, <1>6 DEF Next, Trial

-----------------------------------------------------------------------------
(* Results *)

LEMMA InitInv == Init => Inv /\ \A k \in LaneKind : Lane(k)!Init
<1> SUFFICES ASSUME Init PROVE Inv /\ \A k \in LaneKind : Holders(k) = {}
  BY DEF Lane!Init
<1>1. \A k \in LaneKind : Holders(k) = {}
  BY DEF Init, Holders
<1>2. TypeOK /\ SleepersMayPoll
  BY PollsAssumption DEF Init, TypeOK, SleepersMayPoll, LaneKind
<1> QED
  BY <1>1, <1>2, FS_EmptySet DEF Inv, CountExact, Init

\* Types, and with them that no task polls a full lane more often than its wait
\* timeout allows.
THEOREM LanesTypeCorrect == Spec => []TypeOK
<1>1. Inv /\ [Next]_vars => Inv'
  BY Step
<1>2. Inv => TypeOK
  BY DEF Inv
<1> QED
  BY InitInv, <1>1, <1>2, PTL DEF Spec

\* Every lane's counter equals the number of its living permits, whatever loads,
\* weak exchanges, polls and disconnects interleave (lanes.rs try_acquire, Drop).
THEOREM LaneCountsExact == Spec => []CountExact
<1>1. Inv /\ [Next]_vars => Inv'
  BY Step
<1>2. Inv => CountExact
  BY DEF Inv
<1> QED
  BY InitInv, <1>1, <1>2, PTL DEF Spec

\* Every lane implements Permits: it never has more permits out than slots.
THEOREM LanesImplementPermits == Spec => ImplementsPermits
<1>1. Inv /\ [Next]_vars => Inv'
  BY Step
<1>2. Inv /\ [Next]_vars
        => [\A k \in LaneKind : Lane(k)!Next \/ UNCHANGED Holders(k)]_vars
  BY Step
<1> QED
  BY InitInv, <1>1, <1>2, PTL DEF Spec, ImplementsPermits

-----------------------------------------------------------------------------
(* The list of models *)

\* The probes go through a sequence, which has a length.
LEMMA ProbedIsFinite == Len(L!Probed) \in Nat
<1> DEFINE all == Allowlist \cup L!ListedStatic
<1>1. IsFiniteSet(DOMAIN Static) /\ IsFiniteSet(Allowlist)
  BY FrontEndAssumption DEF L!ProbeAssumption, IsFiniteSet, L!IsFiniteSet
<1>2. IsFiniteSet(all)
  BY <1>1, FS_Union, FS_Subset DEF L!ListedStatic
<1> HIDE DEF all
<1>3. Cardinality(all) \in Nat /\ ExistsBijection(1..Cardinality(all), all)
  BY <1>2, FS_CardinalityType
<1>4. \E f \in [1..Cardinality(all) -> all] : L!IsInjective(f)
  BY <1>3 DEF ExistsBijection, Bijection, Injection, IsInjective, L!IsInjective
<1>5. L!SetToSeq(all) \in [1..Cardinality(all) -> all]
  BY <1>4 DEF L!SetToSeq, L!Cardinality, Cardinality
<1>6. L!SetToSeq(all) \in Seq(all)
  BY <1>3, <1>5
<1> QED
  BY <1>6 DEF L!Probed, all

LEMMA VerdictType ==
  ASSUME NEW v \in [alive : BOOLEAN, fails : 0..Threshold], NEW ok
  PROVE  L!Judged(v, ok) \in [alive : BOOLEAN, fails : 0..Threshold]
<1>1. Threshold \in Nat \ {0}
  BY FrontEndAssumption DEF L!ProbeAssumption
<1>2. L!Smaller(v.fails + 1, Threshold) \in 0..Threshold
  BY <1>1 DEF L!Smaller
<1> QED
  BY <1>1, <1>2 DEF L!Judged, L!Unprobed

LEMMA ListTyping == L!TypeOK /\ [L!Next]_(L!vars) => L!TypeOK'
<1> SUFFICES ASSUME L!TypeOK, [L!Next]_(L!vars) PROVE L!TypeOK'
  OBVIOUS
<1> USE DEF L!TypeOK
<1>1. ASSUME UNCHANGED L!vars PROVE L!TypeOK'
  BY <1>1 DEF L!vars
<1>2. ASSUME NEW b \in L!Batch, L!Start(b) PROVE L!TypeOK'
  BY <1>2, ProbedIsFinite DEF L!Start
<1>3. ASSUME NEW b \in L!Batch, L!Probe(b) PROVE L!TypeOK'
  <2>1. running[b] \in Seq(BOOLEAN) /\ Len(running[b]) < Len(L!Probed)
    BY <1>3 DEF L!Probe
  <2> DEFINE more == Append(running[b], L!Probed[Len(running[b]) + 1] \in serves)
  <2>2. more \in Seq(BOOLEAN) /\ Len(more) <= Len(L!Probed)
    BY <2>1, ProbedIsFinite
  <2>3. running' = [running EXCEPT ![b] = more]
    BY <1>3 DEF L!Probe
  <2> HIDE DEF more
  <2> QED
    BY <1>3, <2>2, <2>3 DEF L!Probe
<1>4. ASSUME NEW b \in L!Batch, L!Apply(b) PROVE L!TypeOK'
  <2>1. verdicts' \in [L!Names -> [alive : BOOLEAN, fails : 0..Threshold]]
    BY <1>4, VerdictType DEF L!Apply
  <2> QED
    BY <1>4, <2>1 DEF L!Apply
<1>5. ASSUME NEW m \in Found, NEW state \in {"candidate", "active", "retired"},
             L!Lifecycle(m, state)
      PROVE  L!TypeOK'
  BY <1>5 DEF L!Lifecycle, L!State
<1>6. ASSUME NEW n \in L!Names, L!Upstream(n) PROVE L!TypeOK'
  BY <1>6 DEF L!Upstream
<1> QED
  BY <1>1, <1>2, <1>3, <1>4, <1>5, <1>6 DEF L!Next

LEMMA ListInit == L!Init => L!TypeOK
<1> SUFFICES ASSUME L!Init PROVE L!TypeOK
  OBVIOUS
<1>1. Threshold \in Nat \ {0}
  BY FrontEndAssumption DEF L!ProbeAssumption
<1>2. L!Unprobed \in [alive : BOOLEAN, fails : 0..Threshold]
  BY <1>1 DEF L!Unprobed
<1> QED
  BY <1>2 DEF L!Init, L!TypeOK, L!State

\* Whatever the tables hold, and whatever state the models are in, a name of the
\* list is found again: in a table, or as the model that put it on the list.
LEMMA ListedNamesAreFound == L!ListedResolve
<1> SUFFICES ASSUME NEW n \in L!Listed
             PROVE  /\ L!Resolved(n, states) # {}
                    /\ n \notin DOMAIN Static \cup DOMAIN Aliases
                         => \A m \in L!Resolved(n, states) : L!Public(m, states)
  BY DEF L!ListedResolve
<1>1. n \in L!PublicNames(states)
  BY DEF L!Listed
<1>2. CASE n \in DOMAIN Static \cup DOMAIN Aliases
  BY <1>2 DEF L!Resolved
<1>3. CASE n \notin DOMAIN Static \cup DOMAIN Aliases
  <2>1. PICK m \in Found : L!Public(m, states) /\ Alias[m] = n
    BY <1>1, <1>3 DEF L!PublicNames, L!ListedStatic
  <2>2. L!Resolved(n, states) = {f \in Found : L!Routable(f, states) /\ Alias[f] = n}
    BY <1>3 DEF L!Resolved
  <2>3. m \in L!Resolved(n, states)
    BY <2>1, <2>2 DEF L!Public
  <2>4. ASSUME NEW f \in L!Resolved(n, states) PROVE L!Public(f, states)
    BY <2>1, <2>2 DEF L!Public, L!Allowed
  <2> QED
    BY <2>3, <2>4
<1> QED
  BY <1>2, <1>3

-----------------------------------------------------------------------------
(* The sum *)

\* A behaviour of the sum is one of the lanes and one of the list, so that what
\* is proved of either holds of it.
THEOREM FrontEndKeepsApart == FrontEndSpec => Spec /\ L!Init /\ [][L!Next]_(L!vars)
<1>1. FrontEndInit => Init /\ L!Init
  BY DEF FrontEndInit
<1>2. [FrontEndNext]_<<part, vars, list>> => [Next]_vars
  BY DEF FrontEndNext
<1>3. [FrontEndNext]_<<part, vars, list>> => [L!Next]_(L!vars)
  BY DEF FrontEndNext, list, L!vars
<1> QED
  BY <1>1, <1>2, <1>3, PTL DEF FrontEndSpec, Spec

\* Lanes and list keep their types: no poll past the wait timeout, no count of
\* failures past the threshold, no batch that probes more than the names it has.
THEOREM FrontEndTypesCorrect == FrontEndSpec => []FrontEndTypeOK
<1>1. TypeOK /\ L!TypeOK => FrontEndTypeOK
  BY DEF FrontEndTypeOK
<1> QED
  BY <1>1, FrontEndKeepsApart, LanesTypeCorrect, ListInit, ListTyping, PTL

\* At every moment, every name that models_handler lists is one that resolve
\* finds, a discovered one as a model that may be shown.
THEOREM ListedNamesResolve == FrontEndSpec => []L!ListedResolve
BY ListedNamesAreFound, PTL
=============================================================================
