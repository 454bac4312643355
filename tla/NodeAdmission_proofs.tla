------------------------ MODULE NodeAdmission_proofs ------------------------
(***************************************************************************)
(* Proofs about NodeAdmission, for any tasks, costs, limits and clocks:    *)
(* its types, who owns the node's leases, what the queue of metadata       *)
(* holds, and how far parallel admissions can pass the limits.             *)
(*                                                                         *)
(* What the holders of leases were charged is a sum over a set, a fold.    *)
(* It is as many as the units charged (ChargedIsUnits), a set whose size   *)
(* the steps of the node change by one request's cost.                     *)
(***************************************************************************)
EXTENDS NodeAdmission, WellFoundedInduction, FiniteSetTheorems, TLAPS

-----------------------------------------------------------------------------
(* Type correctness *)

LEMMA CeilingType == Floor \in Nat \ {0} /\ Ceiling \in Nat /\ Floor <= Ceiling
BY AimdAssumption DEF Floor, Ceiling, Larger

\* A reduction never raises the limit: FailurePercent is less than a hundred.
LEMMA ReducedBounds == ASSUME NEW n \in Floor..Ceiling PROVE Reduced(n) \in Floor..Ceiling
<1>1. n \in Nat
  BY CeilingType
<1> DEFINE product == n * FailurePercent
<1>2. product \in Nat /\ product <= 100 * n
  BY <1>1, AimdAssumption
<1>3. \A x \in Nat : x <= 100 * n => x \div 100 <= n
  BY <1>1
<1>4. (n * FailurePercent) \div 100 \in Int /\ (n * FailurePercent) \div 100 <= n
  BY <1>2, <1>3
<1>. QED
  BY <1>1, <1>4, CeilingType DEF Reduced, Larger

LEMMA RaisedBounds == ASSUME NEW n \in Floor..Ceiling PROVE Raised(n) \in Floor..Ceiling
BY CeilingType, AimdAssumption DEF Raised, Smaller

LEMMA CostType == TypeOK => \A t \in Threads : cost[t] \in [Resources -> Nat]
BY CostsAssumption DEF TypeOK, NoCost

\* The places of a task
LocalsTyped ==
  /\ pc \in [Threads -> PC]
  /\ cost \in [Threads -> Costs \cup {NoCost}]
  /\ late \in [Threads -> 0..MaxLate]
  /\ seen \in [Threads -> Nat]
  /\ after \in [Threads -> PC]

LEMMA GoToTyped ==
  ASSUME TypeOK, NEW t \in Threads, NEW s \in PC, GoTo(t, s)
  PROVE  LocalsTyped'
<1>1. pc' \in [Threads -> PC] /\ seen' \in [Threads -> Nat]
  BY DEF GoTo, TypeOK
<1>2. cost' \in [Threads -> Costs \cup {NoCost}]
  BY DEF GoTo, TypeOK
<1>3. late' \in [Threads -> 0..MaxLate]
  BY CooldownAssumption DEF GoTo, TypeOK
<1>4. after' \in [Threads -> PC]
  BY DEF GoTo, TypeOK, PC
<1>. QED
  BY <1>1, <1>2, <1>3, <1>4 DEF LocalsTyped

LEMMA AttemptTyped ==
  ASSUME TypeOK, NEW t \in Threads, NEW s \in PC, NEW o \in PC, Attempt(t, s, o)
  PROVE  LocalsTyped'
BY CooldownAssumption DEF Attempt, TypeOK, LocalsTyped

\* A cooldown is over, or lasts what is left of it.
LEMMA CooldownTyped ==
  ASSUME TypeOK, NEW t \in Threads, NEW n \in Nat, Refusal(t, n) \/ ClearCooldown(t)
  PROVE  cooldown' \in Over..CooldownSecs
BY CooldownAssumption DEF TypeOK, Refusal, ClearCooldown, Over

LEMMA TypingStep == TypeOK /\ [Next]_vars => TypeOK'
<1> SUFFICES ASSUME TypeOK, [Next]_vars PROVE TypeOK'
  OBVIOUS
<1>1. ASSUME NEW t \in Threads, NEW c \in Costs, Arrive(t, c) PROVE TypeOK'
  BY <1>1 DEF Arrive, TypeOK, PC, node
<1>2. ASSUME NEW t \in Threads, Sample(t) \/ Scan(t) \/ Best(t) PROVE TypeOK'
  <2>1. LocalsTyped'
    BY <1>2, GoToTyped, AttemptTyped DEF Sample, Scan, Best, PC
  <2>. QED
    BY <1>2, <2>1 DEF Sample, Scan, Best, node, history, LocalsTyped, TypeOK
<1>3. ASSUME NEW t \in Threads, Load(t) PROVE TypeOK'
  BY <1>3 DEF Load, TypeOK, PC, node, history
<1>4. ASSUME NEW t \in Threads, Admit(t) \/ Diagnose(t) PROVE TypeOK'
  <2>1. LocalsTyped'
    BY <1>4, GoToTyped DEF Admit, Diagnose, PC
  <2>2. cooldown' \in Over..CooldownSecs
    BY <1>4, CooldownTyped DEF Admit, Diagnose, TypeOK
  <2>3. used' \in [Resources -> Nat]
    BY <1>4, CostType DEF Admit, Diagnose, Charge, TypeOK
  <2>. QED
    BY <1>4, <2>1, <2>2, <2>3 DEF Admit, Diagnose, LocalsTyped, TypeOK, history
<1>5. ASSUME NEW t \in Threads, Refuse(t) PROVE TypeOK'
  <2>1. LocalsTyped'
    BY <1>5, GoToTyped DEF Refuse, TypeOK
  <2>2. cooldown' \in Over..CooldownSecs
    BY <1>5, CooldownTyped DEF Refuse, TypeOK
  <2>. QED
    BY <1>5, <2>1, <2>2 DEF Refuse, LocalsTyped, TypeOK, history
<1>6. ASSUME NEW t \in Threads, GlobalAdmits(t) \/ GlobalRejects(t) \/ GlobalDown(t)
      PROVE  TypeOK'
  <2>1. LocalsTyped'
    BY <1>6, GoToTyped DEF GlobalAdmits, GlobalRejects, GlobalDown, PC
  <2>2. cooldown' \in Over..CooldownSecs
    BY <1>6, CooldownAssumption
       DEF GlobalAdmits, GlobalRejects, GlobalDown, node, TypeOK, Over
  <2>. QED
    BY <1>6, <2>1, <2>2
       DEF GlobalAdmits, GlobalRejects, GlobalDown, LocalsTyped, TypeOK, node, history
<1>7. ASSUME NEW t \in Threads, Remember(t) \/ Rollback(t) PROVE TypeOK'
  <2>1. LocalsTyped'
    BY <1>7, GoToTyped DEF Remember, Rollback, PC
  <2>. QED
    BY <1>7, <2>1 DEF Remember, Rollback, Smaller, Larger, LocalsTyped, TypeOK, history
<1>8. ASSUME NEW t \in Threads, RollbackBudget(t) PROVE TypeOK'
  <2>1. LocalsTyped'
    BY <1>8, GoToTyped DEF RollbackBudget, TypeOK
  <2>2. used' \in [Resources -> Nat]
    BY <1>8, CostType DEF RollbackBudget, Refund, Larger, TypeOK
  <2>. QED
    BY <1>8, <2>1, <2>2 DEF RollbackBudget, LocalsTyped, TypeOK, history
<1>9. ASSUME NEW t \in Threads, Release(t) PROVE TypeOK'
  <2>1. GiveBack(t)
    BY <1>9 DEF Release, ReleaseSuccess, ReleaseFailure, ReleaseClientGone
  <2>2. LocalsTyped'
    BY <2>1, GoToTyped DEF GiveBack, PC
  <2>3. limit' \in Floor..Ceiling
    BY <1>9, ReducedBounds, RaisedBounds
       DEF Release, ReleaseSuccess, ReleaseFailure, ReleaseClientGone, TypeOK
  <2>4. streak' \in 0..2
    BY <1>9 DEF Release, ReleaseSuccess, ReleaseFailure, ReleaseClientGone, TypeOK
  <2>. QED
    BY <2>1, <2>2, <2>3, <2>4 DEF GiveBack, Larger, LocalsTyped, TypeOK, history
<1>10. CASE Tick
  <2>1. cooldown' \in Over..CooldownSecs
    BY <1>10, CooldownAssumption DEF Tick, TypeOK, Larger, Over
  <2>2. late' \in [Threads -> 0..MaxLate]
    BY <1>10, CooldownAssumption DEF Tick, TypeOK
  <2>. QED
    BY <1>10, <2>1, <2>2 DEF Tick, TypeOK, history
<1>11. CASE UNCHANGED vars
  BY <1>11 DEF vars, TypeOK
<1>. QED
  BY <1>1, <1>2, <1>3, <1>4, <1>5, <1>6, <1>7, <1>8, <1>9, <1>10, <1>11
     DEF Next, Admission

\* For any limits and clocks: the AIMD limit stays between its floor and its
\* ceiling, and no cooldown is longer than the configured one.
THEOREM Typing == Spec => []TypeOK
<1>1. Init => TypeOK
  <2>1. InitialLimit \in Floor..Ceiling
    BY CeilingType, AimdAssumption DEF InitialLimit, Floor, Ceiling, Larger, Smaller
  <2>2. Over \in Over..CooldownSecs /\ 0 \in 0..MaxLate
    BY CooldownAssumption DEF Over
  <2>3. Init => LocalsTyped
    BY <2>2 DEF Init, LocalsTyped, PC
  <2>4. Init => used \in [Resources -> Nat] /\ cooldown \in Over..CooldownSecs
    BY <2>2 DEF Init
  <2>5. Init => /\ leases \in Nat /\ limit \in Floor..Ceiling /\ streak \in 0..2
                /\ remembered \in Nat /\ leaked \in Nat
    BY <2>1 DEF Init
  <2>6. Init => overlapped \in BOOLEAN
    BY DEF Init
  <2>. QED
    BY <2>3, <2>4, <2>5, <2>6 DEF LocalsTyped, TypeOK
<1>. QED
  BY <1>1, TypingStep, PTL DEF Spec

-----------------------------------------------------------------------------
(* Who owns the leases *)

\* The places at which a task holds a lease, those to which a refused attempt may
\* send it, and the tasks being served
Owning == {"global", "remember", "rollback", "serving"}
Fallback == {"idle", "sample", "scan", "best"}
Served == {t \in Threads : pc[t] = "serving"}

AfterInv == \A t \in Threads : after[t] \in Fallback

OwnersInv ==
  /\ AfterInv
  /\ leases = Cardinality(Holders) + leaked
  /\ remembered = Cardinality(Served)

\* What the move of task t to s changes in the two counts
Moved(t, s) ==
  /\ Cardinality(Holders) \in Nat /\ Cardinality(Served) \in Nat
  /\ Cardinality(Holders') =
       Cardinality(Holders) + (IF s \in Owning THEN 1 ELSE 0)
                            - (IF pc[t] \in Owning THEN 1 ELSE 0)
  /\ Cardinality(Served') =
       Cardinality(Served) + (IF s = "serving" THEN 1 ELSE 0)
                           - (IF pc[t] = "serving" THEN 1 ELSE 0)
  /\ pc[t] \in Owning => Cardinality(Holders) > 0
  /\ pc[t] = "serving" => Cardinality(Served) > 0
  /\ pc[t] = "remember" => Cardinality(Served) < Cardinality(Holders)

LEMMA MoveCounts ==
  ASSUME TypeOK, NEW t \in Threads, NEW s \in PC, pc' = [pc EXCEPT ![t] = s]
  PROVE  Moved(t, s)
<1>1. /\ IsFiniteSet(Holders) /\ IsFiniteSet(Holders \ {t})
      /\ IsFiniteSet(Served) /\ IsFiniteSet(Served \ {t})
  BY ThreadsAssumption, FS_Subset DEF Holders, Served
<1>2. /\ Cardinality(Holders) \in Nat /\ Cardinality(Served) \in Nat
      /\ Cardinality(Holders \ {t}) \in Nat /\ Cardinality(Served \ {t}) \in Nat
  BY <1>1, FS_CardinalityType
<1>3. /\ Cardinality(Holders \ {t}) =
           IF t \in Holders THEN Cardinality(Holders) - 1 ELSE Cardinality(Holders)
      /\ Cardinality(Served \ {t}) =
           IF t \in Served THEN Cardinality(Served) - 1 ELSE Cardinality(Served)
  BY <1>1, FS_RemoveElement
<1>4. /\ Cardinality((Holders \ {t}) \cup {t}) = Cardinality(Holders \ {t}) + 1
      /\ Cardinality((Served \ {t}) \cup {t}) = Cardinality(Served \ {t}) + 1
  BY <1>1, FS_AddElement
<1>5. /\ t \in Holders <=> pc[t] \in Owning
      /\ t \in Served <=> pc[t] = "serving"
  BY DEF Holders, Holding, Owning, Served
<1>6. Holders' = IF s \in Owning THEN (Holders \ {t}) \cup {t} ELSE Holders \ {t}
  BY DEF Holders, Holding, Owning, TypeOK
<1>7. Served' = IF s = "serving" THEN (Served \ {t}) \cup {t} ELSE Served \ {t}
  BY DEF Served, TypeOK
<1>8. pc[t] = "remember" => Cardinality(Served) < Cardinality(Holders)
  <2>1. pc[t] = "remember" => Served \subseteq Holders \ {t}
    BY DEF Served, Holders, Holding
  <2>2. pc[t] = "remember" => Cardinality(Served) <= Cardinality(Holders \ {t})
    BY <1>1, <2>1, FS_Subset
  <2>. QED
    BY <1>2, <1>3, <1>5, <2>2 DEF Owning
<1>. QED
  BY <1>2, <1>3, <1>4, <1>5, <1>6, <1>7, <1>8 DEF Moved

\* A step that moves no task leaves the two counts alone.
LEMMA NobodyMoves ==
  ASSUME OwnersInv, UNCHANGED <<pc, after, leases, leaked, remembered>>
  PROVE  OwnersInv'
BY DEF OwnersInv, AfterInv, Holders, Holding, Served

LEMMA OwnersStep == TypeOK /\ OwnersInv /\ [Next]_vars => OwnersInv'
<1> SUFFICES ASSUME TypeOK, OwnersInv, [Next]_vars PROVE OwnersInv'
  OBVIOUS
<1> USE DEF OwnersInv, Owning
<1>1. ASSUME NEW t \in Threads, NEW s \in PC \ Owning, pc[t] \notin Owning,
             pc' = [pc EXCEPT ![t] = s], AfterInv',
             leases' - leaked' = leases - leaked, remembered' = remembered,
             leases' \in Nat, leaked' \in Nat
      PROVE  OwnersInv'
  <2>1. Moved(t, s)
    BY <1>1, MoveCounts
  <2>. QED
    BY <1>1, <2>1 DEF TypeOK, Moved
<1>2. ASSUME NEW t \in Threads, NEW s \in Fallback \cup PC, GoTo(t, s) PROVE AfterInv'
  BY <1>2 DEF GoTo, AfterInv, Fallback, TypeOK
<1>3. ASSUME NEW t \in Threads, NEW c \in Costs, Arrive(t, c) PROVE OwnersInv'
  <2>1. AfterInv'
    BY <1>3 DEF Arrive, AfterInv, Fallback, TypeOK
  <2>2. PICK first \in {<<"sticky", "sample">>, <<"sample", "idle">>} :
          pc' = [pc EXCEPT ![t] = first[1]]
    BY <1>3 DEF Arrive
  <2>3. first[1] \in {"sticky", "sample"}
    OBVIOUS
  <2>. QED
    BY <1>1, <1>3, <2>1, <2>2, <2>3 DEF Arrive, TypeOK, PC, node
<1>4. ASSUME NEW t \in Threads, Sample(t) \/ Scan(t) \/ Best(t) PROVE OwnersInv'
  <2>1. PICK s \in {"load", "scan", "diagLoad", "best", "sticky", "idle"} :
          \/ GoTo(t, s)
          \/ \E o \in Fallback : Attempt(t, s, o)
    BY <1>4 DEF Sample, Scan, Best, Fallback
  <2>2. AfterInv'
    BY <1>2, <2>1 DEF Attempt, AfterInv, TypeOK, PC
  <2>3. pc' = [pc EXCEPT ![t] = s]
    BY <2>1 DEF GoTo, Attempt
  <2>. QED
    BY <1>1, <1>4, <2>2, <2>3 DEF Sample, Scan, Best, TypeOK, PC, node, history
<1>5. ASSUME NEW t \in Threads, Load(t) PROVE OwnersInv'
  <2>1. PICK s \in {"admit", "diagAdmit"} : pc' = [pc EXCEPT ![t] = s]
    BY <1>5 DEF Load, TypeOK
  <2>. QED
    BY <1>1, <1>5, <2>1 DEF Load, TypeOK, PC, node, history, AfterInv
<1>6. ASSUME NEW t \in Threads, Refuse(t) \/ RollbackBudget(t) PROVE OwnersInv'
  <2>1. after[t] \in Fallback /\ GoTo(t, after[t]) /\ pc' = [pc EXCEPT ![t] = after[t]]
    BY <1>6 DEF Refuse, RollbackBudget, GoTo, AfterInv
  <2>2. AfterInv'
    BY <1>2, <2>1
  <2>. QED
    BY <1>1, <1>6, <2>1, <2>2 DEF Refuse, RollbackBudget, TypeOK, PC, Fallback, history
<1>7. ASSUME NEW t \in Threads, Diagnose(t) PROVE OwnersInv'
  <2>1. GoTo(t, "best") /\ pc' = [pc EXCEPT ![t] = "best"]
    BY <1>7 DEF Diagnose, GoTo
  <2>2. AfterInv'
    BY <1>2, <2>1 DEF Fallback
  <2>3. \/ leases' = leases + 1 /\ leaked' = leaked + 1
        \/ leases' = leases /\ leaked' = leaked
    BY <1>7 DEF Diagnose
  <2>4. pc[t] = "diagAdmit" /\ remembered' = remembered
    BY <1>7 DEF Diagnose
  <2>5. leases' - leaked' = leases - leaked /\ leases' \in Nat /\ leaked' \in Nat
    BY <2>3 DEF TypeOK
  <2>. QED
    BY <1>1, <2>1, <2>2, <2>4, <2>5 DEF PC
<1>8. ASSUME NEW t \in Threads, Admit(t) PROVE OwnersInv'
  <2>1. GoTo(t, "global") /\ pc' = [pc EXCEPT ![t] = "global"]
    BY <1>8 DEF Admit, GoTo
  <2>2. AfterInv'
    BY <1>2, <2>1 DEF PC
  <2>3. Moved(t, "global")
    BY <2>1, MoveCounts DEF PC
  <2>. QED
    BY <1>8, <2>2, <2>3 DEF Admit, Moved, TypeOK, history
<1>9. ASSUME NEW t \in Threads, GlobalAdmits(t) \/ GlobalRejects(t) \/ GlobalDown(t)
      PROVE  OwnersInv'
  <2>1. PICK s \in {"remember", "rollback"} : GoTo(t, s)
    BY <1>9 DEF GlobalAdmits, GlobalRejects, GlobalDown
  <2>2. AfterInv' /\ pc' = [pc EXCEPT ![t] = s]
    BY <1>2, <2>1 DEF PC, GoTo
  <2>3. pc[t] = "global" /\ UNCHANGED <<leases, leaked, remembered>>
    BY <1>9 DEF GlobalAdmits, GlobalRejects, GlobalDown, node, history
  <2>4. Moved(t, s)
    BY <2>2, MoveCounts DEF PC
  <2>. QED
    BY <2>2, <2>3, <2>4 DEF Moved, TypeOK
<1>10. ASSUME NEW t \in Threads, Remember(t) PROVE OwnersInv'
  <2>1. GoTo(t, "serving") /\ pc' = [pc EXCEPT ![t] = "serving"]
    BY <1>10 DEF Remember, GoTo
  <2>2. AfterInv'
    BY <1>2, <2>1 DEF PC
  <2>3. Moved(t, "serving")
    BY <2>1, MoveCounts DEF PC
  <2>4. remembered < leases
    BY <1>10, <2>3 DEF Remember, Moved, TypeOK
  <2>. QED
    BY <1>10, <2>2, <2>3, <2>4 DEF Remember, Moved, Smaller, TypeOK, history
<1>11. ASSUME NEW t \in Threads, Rollback(t) PROVE OwnersInv'
  <2>1. GoTo(t, "refund") /\ pc' = [pc EXCEPT ![t] = "refund"]
    BY <1>11 DEF Rollback, GoTo
  <2>2. AfterInv'
    BY <1>2, <2>1 DEF PC
  <2>3. Moved(t, "refund")
    BY <2>1, MoveCounts DEF PC
  <2>. QED
    BY <1>11, <2>2, <2>3 DEF Rollback, Moved, Larger, TypeOK, history
<1>12. ASSUME NEW t \in Threads, GiveBack(t) PROVE OwnersInv'
  <2>1. GoTo(t, "idle") /\ pc' = [pc EXCEPT ![t] = "idle"]
    BY <1>12 DEF GiveBack, GoTo
  <2>2. AfterInv'
    BY <1>2, <2>1 DEF PC
  <2>3. Moved(t, "idle")
    BY <2>1, MoveCounts DEF PC
  <2>. QED
    BY <1>12, <2>2, <2>3 DEF GiveBack, Moved, Larger, TypeOK, history
<1>13. CASE Tick \/ UNCHANGED vars
  BY <1>13, NobodyMoves DEF Tick, history, vars
<1>. QED
  BY <1>3, <1>4, <1>5, <1>6, <1>7, <1>8, <1>9, <1>10, <1>11, <1>12, <1>13
     DEF Next, Admission, Release, ReleaseSuccess, ReleaseFailure, ReleaseClientGone

LEMMA OwnersInit == Init => OwnersInv
<1>1. Init => Holders = {} /\ Served = {}
  BY DEF Init, Holders, Holding, Served
<1>. QED
  BY <1>1, FS_EmptySet DEF Init, OwnersInv, AfterInv, Fallback

\* For any tasks: the queue holds the metadata of exactly the requests being
\* served, whatever admissions are rolled back beside them.
THEOREM QueueFollowsServing == Spec => []RememberedServed
<1>1. OwnersInv => RememberedServed
  BY DEF OwnersInv, RememberedServed, Served
<1>. QED
  BY <1>1, Typing, OwnersInit, OwnersStep, PTL DEF Spec

-----------------------------------------------------------------------------
(* The diagnostics pass of a lone admission drops no lease *)

Diagnosing == {"diagLoad", "diagAdmit"}

\* While admissions have not overlapped there is one at a time, and what it found
\* inadmissible stays so: reports wait for the shard's lock, and the clock it read
\* does not move.
Alone ==
  /\ leaked = 0
  /\ \A t, u \in Admitting : t = u
  /\ \A t \in Threads : pc[t] \in Diagnosing => ~CanAdmit(t, leases)
  /\ \A t \in Threads : pc[t] = "diagAdmit" => seen[t] = leases
AloneInv == ~overlapped => Alone

\* The lone admission goes on to anything but a diagnosis.
LEMMA GoesOn ==
  ASSUME TypeOK, Alone, NEW t \in Admitting, NEW s \in PC \ Diagnosing,
         pc' = [pc EXCEPT ![t] = s], leaked' = leaked
  PROVE  Alone'
<1>1. \A u \in Threads : pc'[u] = IF u = t THEN s ELSE pc[u]
  BY DEF TypeOK
<1>2. t \in Threads /\ Admitting' \subseteq Admitting
  BY <1>1 DEF Admitting
<1>3. \A u \in Threads : pc'[u] \notin Diagnosing
  BY <1>1 DEF Alone, Admitting, Diagnosing
<1>. QED
  BY <1>2, <1>3 DEF Alone, Diagnosing

LEMMA AloneStep == TypeOK /\ AfterInv /\ AloneInv /\ [Next]_vars => AloneInv'
<1> SUFFICES ASSUME TypeOK, AfterInv, AloneInv, [Next]_vars PROVE AloneInv'
  OBVIOUS
<1>1. ASSUME NEW t \in Threads, NEW c \in Costs, Arrive(t, c) PROVE AloneInv'
  <2>1. SUFFICES ASSUME ~overlapped' PROVE Alone'
    BY DEF AloneInv
  <2>2. ~overlapped /\ Admitting = {} /\ leaked' = leaked
    BY <1>1, <2>1 DEF Arrive
  <2>3. PICK s \in {"sticky", "sample"} : \A u \in Threads : pc'[u] = IF u = t THEN s ELSE pc[u]
    <3>1. PICK first \in {<<"sticky", "sample">>, <<"sample", "idle">>} :
            pc' = [pc EXCEPT ![t] = first[1]]
      BY <1>1 DEF Arrive
    <3>. QED
      BY <3>1 DEF TypeOK
  <2>4. \A u \in Threads : pc[u] \in {"idle", "serving"}
    BY <2>2 DEF Admitting
  <2>5. Admitting' \subseteq {t}
    BY <2>3, <2>4 DEF Admitting
  <2>6. \A u \in Threads : pc'[u] \notin Diagnosing
    BY <2>3, <2>4 DEF Diagnosing
  <2>. QED
    BY <2>2, <2>5, <2>6 DEF Alone, AloneInv, Diagnosing
<1>2. ASSUME NEW t \in Threads, Admission(t) PROVE AloneInv'
  <2>1. SUFFICES ASSUME Alone PROVE Alone'
    BY <1>2 DEF AloneInv, Admission, Sample, Scan, Best, Load, Admit, Refuse, Diagnose,
                GlobalAdmits, GlobalRejects, GlobalDown, Remember, Rollback,
                RollbackBudget, history
  <2>2. t \in Admitting
    BY <1>2 DEF Admission, Admitting, Sample, Scan, Best, Load, Admit, Refuse, Diagnose,
                GlobalAdmits, GlobalRejects, GlobalDown, Remember, Rollback, RollbackBudget
  <2>3. \A u \in Threads \ {t} : pc[u] \in {"idle", "serving"}
    BY <2>1, <2>2 DEF Alone, Admitting
  <2>4. ASSUME NEW s \in PC \ Diagnosing, GoTo(t, s), leaked' = leaked PROVE Alone'
    BY <2>1, <2>2, <2>4, GoesOn DEF GoTo
  <2>5. CASE Scan(t) /\ ~CanAdmit(t, leases) /\ GoTo(t, "diagLoad")
    <3>1. \A u \in Threads : pc'[u] = IF u = t THEN "diagLoad" ELSE pc[u]
      BY <2>5 DEF GoTo, TypeOK
    <3>2. Admitting' \subseteq {t}
      BY <2>3, <3>1 DEF Admitting
    <3>3. ~CanAdmit(t, leases)'
      BY <2>5 DEF Scan, GoTo, node, CanAdmit, Cooling, Fits
    <3>4. leaked' = 0
      BY <2>1, <2>5 DEF Scan, history, Alone
    <3>. QED
      BY <2>3, <3>1, <3>2, <3>3, <3>4 DEF Alone, Diagnosing
  <2>6. CASE \/ Sample(t) \/ Best(t)
             \/ Scan(t) /\ (Attempt(t, "load", "best") \/ GoTo(t, "best"))
    <3>1. PICK s \in {"load", "scan", "best", "sticky", "idle"} : pc' = [pc EXCEPT ![t] = s]
      BY <2>6 DEF Sample, Best, Scan, GoTo, Attempt
    <3>2. leaked' = leaked
      BY <2>6 DEF Sample, Best, Scan, history
    <3>. QED
      BY <2>1, <2>2, <3>1, <3>2, GoesOn DEF PC, Diagnosing
  <2>7. CASE Load(t) /\ pc[t] = "diagLoad"
    <3>1. /\ \A u \in Threads : pc'[u] = IF u = t THEN "diagAdmit" ELSE pc[u]
          /\ seen'[t] = leases
      BY <2>7 DEF Load, TypeOK
    <3>2. Admitting' \subseteq {t}
      BY <2>3, <3>1 DEF Admitting
    <3>3. ~CanAdmit(t, leases)'
      BY <2>1, <2>7 DEF Alone, Diagnosing, Load, node, CanAdmit, Cooling, Fits
    <3>4. leaked' = 0 /\ leases' = leases
      BY <2>1, <2>7 DEF Load, node, history, Alone
    <3>. QED
      BY <2>3, <3>1, <3>2, <3>3, <3>4 DEF Alone, Diagnosing
  <2>8. CASE Load(t) /\ pc[t] # "diagLoad"
    <3>1. pc' = [pc EXCEPT ![t] = "admit"] /\ leaked' = leaked
      BY <2>8 DEF Load, history, TypeOK
    <3>. QED
      BY <2>1, <2>2, <3>1, GoesOn DEF PC, Diagnosing
  <2>9. CASE Diagnose(t)
    <3>1. ~CanAdmit(t, seen[t])
      BY <2>1, <2>9 DEF Alone, Diagnose, Diagnosing
    <3>. QED
      BY <2>4, <2>9, <3>1 DEF Diagnose, PC, Diagnosing
  <2>10. CASE Refuse(t) \/ RollbackBudget(t)
    <3>1. after[t] \in PC \ Diagnosing
      BY DEF AfterInv, Fallback, PC, Diagnosing
    <3>. QED
      BY <2>4, <2>10, <3>1 DEF Refuse, RollbackBudget, history
  <2>11. CASE Admit(t) \/ Remember(t) \/ Rollback(t)
    BY <2>4, <2>11 DEF Admit, Remember, Rollback, history, PC, Diagnosing
  <2>12. CASE GlobalAdmits(t) \/ GlobalRejects(t) \/ GlobalDown(t)
    BY <2>4, <2>12 DEF GlobalAdmits, GlobalRejects, GlobalDown, history, PC, Diagnosing
  <2>. QED
    BY <1>2, <2>5, <2>6, <2>7, <2>8, <2>9, <2>10, <2>11, <2>12 DEF Admission, Scan
<1>3. ASSUME NEW t \in Threads, GiveBack(t) PROVE AloneInv'
  <2>1. \A u \in Threads : pc'[u] = IF u = t THEN "idle" ELSE pc[u]
    BY <1>3 DEF GiveBack, GoTo, TypeOK
  <2>2. \A u \in Threads : pc'[u] \notin Diagnosing
    BY <1>3, <2>1 DEF GiveBack, ShardFree, Inside, Diagnosing
  <2>3. Admitting' = Admitting
    BY <1>3, <2>1 DEF GiveBack, Admitting
  <2>4. UNCHANGED <<leaked, overlapped>>
    BY <1>3 DEF GiveBack, history
  <2>. QED
    BY <2>2, <2>3, <2>4 DEF AloneInv, Alone, Diagnosing
<1>4. CASE Tick
  <2>1. /\ Admitting' = Admitting
        /\ UNCHANGED <<leases, limit, used, pc, cost, seen, leaked, overlapped>>
    BY <1>4 DEF Tick, history, Admitting
  <2>2. ASSUME NEW t \in Threads, pc[t] \in Diagnosing, ~CanAdmit(t, leases)
        PROVE  ~CanAdmit(t, leases)'
    <3>1. t \in Admitting
      BY <2>2 DEF Admitting, Diagnosing
    <3>2. Cooling(t) => Cooling(t)'
      BY <1>4, <3>1 DEF Tick, Cooling, TypeOK, Larger, Over
    <3>. QED
      BY <2>1, <2>2, <3>2 DEF CanAdmit, Fits
  <2>. QED
    BY <2>1, <2>2 DEF AloneInv, Alone
<1>5. CASE UNCHANGED vars
  BY <1>5 DEF vars, AloneInv, Alone, Admitting, CanAdmit, Cooling, Fits
<1>. QED
  BY <1>1, <1>2, <1>3, <1>4, <1>5
     DEF Next, Release, ReleaseSuccess, ReleaseFailure, ReleaseClientGone

\* For any tasks, costs and clocks: every lease has an owner, and the diagnostics
\* pass owns one only after admissions have overlapped.
THEOREM LeasesHaveOwners == Spec => []LeasesAccounted
<1>1. Init => AloneInv
  BY DEF Init, AloneInv, Alone, Admitting, Diagnosing
<1>2. TypeOK /\ OwnersInv /\ AloneInv => LeasesAccounted
  BY DEF TypeOK, OwnersInv, AloneInv, Alone, LeasesAccounted
<1>3. OwnersInv => AfterInv
  BY DEF OwnersInv
<1>. QED
  BY <1>1, <1>2, <1>3, Typing, OwnersInit, OwnersStep, AloneStep, PTL DEF Spec

-----------------------------------------------------------------------------
(* How far admissions pass the limits *)

\* A budget that fits its window is charged under the lock that checked it.
LEMMA WindowStep == TypeOK /\ WindowKept /\ [Next]_vars => WindowKept'
<1> SUFFICES ASSUME TypeOK, WindowKept, [Next]_vars PROVE WindowKept'
  OBVIOUS
<1>1. ASSUME NEW t \in Threads, Admit(t) \/ Diagnose(t) PROVE WindowKept'
  BY <1>1, CostType, LimitAssumption
     DEF Admit, Diagnose, CanAdmit, Fits, Charge, WindowKept, TypeOK
<1>2. ASSUME NEW t \in Threads, RollbackBudget(t) PROVE WindowKept'
  BY <1>2, CostType, LimitAssumption DEF RollbackBudget, Refund, Larger, WindowKept, TypeOK
<1>3. ASSUME used' = used PROVE WindowKept'
  BY <1>3 DEF WindowKept
<1>. QED
  BY <1>1, <1>2, <1>3
     DEF Next, Admission, Release, Arrive, Sample, Scan, Best, Load, Refuse, GlobalAdmits,
         GlobalRejects, GlobalDown, Remember, Rollback, ReleaseSuccess, ReleaseFailure,
         ReleaseClientGone, GiveBack, Tick, vars, node

\* No rollback, refund or release in any order lets a window counter pass its limit.
THEOREM WindowIsKept == Spec => []WindowKept
<1>1. Init => WindowKept
  BY LimitAssumption DEF Init, WindowKept
<1>. QED
  BY <1>1, Typing, WindowStep, PTL DEF Spec

\* The admissions that have loaded a lease count below the ceiling may each add one
\* more, and a count loaded at the ceiling adds none.
Pending == {t \in Threads : pc[t] \in {"admit", "diagAdmit"} /\ seen[t] < Ceiling}
OvershootInv ==
  AfterInv /\ leases + Cardinality(Pending) < Ceiling + Cardinality(Threads)

LEMMA PendingFinite ==
  ASSUME NEW S \in SUBSET Threads
  PROVE  /\ IsFiniteSet(S) /\ Cardinality(S) \in Nat
         /\ Cardinality(Threads) \in Nat /\ Cardinality(S) <= Cardinality(Threads)
BY ThreadsAssumption, FS_Subset, FS_CardinalityType

LEMMA FewerPending ==
  ASSUME TypeOK, TypeOK', OvershootInv, AfterInv', Pending' \subseteq Pending, leases' <= leases
  PROVE  OvershootInv'
<1>1. Pending \in SUBSET Threads
  BY DEF Pending
<1>2. Cardinality(Pending') <= Cardinality(Pending)
  BY <1>1, PendingFinite, FS_Subset
<1>3. /\ Cardinality(Pending) \in Nat /\ Cardinality(Pending') \in Nat
      /\ Cardinality(Threads) \in Nat
  BY <1>1, PendingFinite
<1>. QED
  BY <1>2, <1>3, CeilingType DEF OvershootInv, TypeOK

LEMMA OvershootStep == TypeOK /\ TypeOK' /\ AfterInv' /\ OvershootInv /\ [Next]_vars => OvershootInv'
<1> SUFFICES ASSUME TypeOK, TypeOK', AfterInv', OvershootInv, [Next]_vars
             PROVE  OvershootInv'
  OBVIOUS
<1>1. ASSUME NEW t \in Threads, NEW s \in PC \ {"admit", "diagAdmit"},
             GoTo(t, s) \/ (\E o \in PC : Attempt(t, s, o)), leases' <= leases
      PROVE  OvershootInv'
  <2>1. \A u \in Threads \ {t} : pc'[u] = pc[u] /\ seen'[u] = seen[u]
    BY <1>1 DEF GoTo, Attempt, TypeOK
  <2>2. pc'[t] = s
    BY <1>1 DEF GoTo, Attempt, TypeOK
  <2>3. Pending' \subseteq Pending
    BY <2>1, <2>2 DEF Pending
  <2>. QED
    BY <1>1, <2>3, FewerPending
<1>2. ASSUME NEW t \in Threads, NEW c \in Costs, Arrive(t, c) PROVE OvershootInv'
  <2>1. PICK first \in {<<"sticky", "sample">>, <<"sample", "idle">>} :
          pc' = [pc EXCEPT ![t] = first[1]]
    BY <1>2 DEF Arrive
  <2>2. \A u \in Threads : pc'[u] = IF u = t THEN first[1] ELSE pc[u]
    BY <2>1 DEF TypeOK
  <2>3. UNCHANGED <<seen, leases>>
    BY <1>2 DEF Arrive, node
  <2>4. Pending' \subseteq Pending
    BY <2>2, <2>3 DEF Pending
  <2>. QED
    BY <2>3, <2>4, FewerPending DEF TypeOK
<1>3. ASSUME NEW t \in Threads, Sample(t) \/ Scan(t) \/ Best(t) PROVE OvershootInv'
  <2>1. PICK s \in {"load", "scan", "diagLoad", "best", "sticky", "idle"} :
          GoTo(t, s) \/ \E o \in PC : Attempt(t, s, o)
    BY <1>3 DEF Sample, Scan, Best, PC
  <2>2. leases' = leases
    BY <1>3 DEF Sample, Scan, Best, node
  <2>. QED
    BY <1>1, <2>1, <2>2 DEF TypeOK, PC
<1>4. ASSUME NEW t \in Threads, Load(t) PROVE OvershootInv'
  <2>1. /\ leases' = leases /\ seen' = [seen EXCEPT ![t] = leases]
        /\ \A u \in Threads \ {t} : pc'[u] = pc[u]
    BY <1>4 DEF Load, node, TypeOK
  <2>2. CASE leases < Ceiling
    <3>1. Pending' \in SUBSET Threads
      BY DEF Pending
    <3>2. /\ Cardinality(Pending') \in Nat /\ Cardinality(Threads) \in Nat
          /\ Cardinality(Pending') <= Cardinality(Threads)
      BY <3>1, PendingFinite
    <3>. QED
      BY <2>1, <2>2, <3>2, CeilingType DEF OvershootInv, TypeOK
  <2>3. CASE ~(leases < Ceiling)
    <3>1. Pending' \subseteq Pending
      BY <2>1, <2>3 DEF Pending, TypeOK
    <3>. QED
      BY <2>1, <3>1, FewerPending DEF TypeOK
  <2>. QED
    BY <2>2, <2>3
<1>5. ASSUME NEW t \in Threads, NEW s \in {"global", "best"}, GoTo(t, s),
             pc[t] \in {"admit", "diagAdmit"}, CanAdmit(t, seen[t]), leases' = leases + 1
      PROVE  OvershootInv'
  <2>1. seen[t] < Ceiling
    BY <1>5, CeilingType DEF CanAdmit, TypeOK
  <2>2. t \in Pending /\ Pending \in SUBSET Threads
    BY <1>5, <2>1 DEF Pending
  <2>3. \A u \in Threads \ {t} : pc'[u] = pc[u] /\ seen'[u] = seen[u]
    BY <1>5 DEF GoTo, TypeOK
  <2>4. pc'[t] = s
    BY <1>5 DEF GoTo, TypeOK
  <2>5. Pending' \subseteq Pending \ {t}
    BY <2>3, <2>4 DEF Pending
  <2>6. IsFiniteSet(Pending \ {t}) /\ Cardinality(Pending \ {t}) = Cardinality(Pending) - 1
    BY <2>2, PendingFinite, FS_RemoveElement
  <2>7. Cardinality(Pending') <= Cardinality(Pending) - 1
    BY <2>5, <2>6, FS_Subset
  <2>8. /\ Cardinality(Pending) \in Nat /\ Cardinality(Pending') \in Nat
        /\ Cardinality(Threads) \in Nat
    BY <2>2, <2>5, PendingFinite
  <2>. QED
    BY <1>5, <2>7, <2>8, CeilingType DEF OvershootInv, TypeOK
<1>6. ASSUME NEW t \in Threads, Admit(t) PROVE OvershootInv'
  BY <1>5, <1>6 DEF Admit
<1>7. ASSUME NEW t \in Threads, Diagnose(t) PROVE OvershootInv'
  <2>1. CASE CanAdmit(t, seen[t])
    BY <1>5, <1>7, <2>1 DEF Diagnose
  <2>2. CASE ~CanAdmit(t, seen[t])
    BY <1>1, <1>7, <2>2 DEF Diagnose, PC, TypeOK
  <2>. QED
    BY <2>1, <2>2
<1>8. ASSUME NEW t \in Threads, Refuse(t) \/ RollbackBudget(t) PROVE OvershootInv'
  <2>1. GoTo(t, after[t]) /\ leases' = leases
    BY <1>8 DEF Refuse, RollbackBudget
  <2>2. after[t] \in PC \ {"admit", "diagAdmit"}
    BY DEF OvershootInv, AfterInv, Fallback, PC
  <2>. QED
    BY <1>1, <2>1, <2>2 DEF TypeOK
<1>9. ASSUME NEW t \in Threads,
             GlobalAdmits(t) \/ GlobalRejects(t) \/ GlobalDown(t) \/ Remember(t)
      PROVE  OvershootInv'
  <2>1. PICK s \in {"remember", "rollback", "serving"} : GoTo(t, s)
    BY <1>9 DEF GlobalAdmits, GlobalRejects, GlobalDown, Remember
  <2>2. leases' = leases
    BY <1>9 DEF GlobalAdmits, GlobalRejects, GlobalDown, Remember, node
  <2>. QED
    BY <1>1, <2>1, <2>2 DEF PC, TypeOK
<1>10. ASSUME NEW t \in Threads, Rollback(t) \/ GiveBack(t) PROVE OvershootInv'
  <2>1. PICK s \in {"refund", "idle"} : GoTo(t, s)
    BY <1>10 DEF Rollback, GiveBack
  <2>2. leases' <= leases
    BY <1>10 DEF Rollback, GiveBack, Larger, TypeOK
  <2>. QED
    BY <1>1, <2>1, <2>2 DEF PC
<1>11. CASE Tick \/ UNCHANGED vars
  <2>1. UNCHANGED <<leases, pc, seen>>
    BY <1>11 DEF Tick, vars
  <2>2. Pending' = Pending
    BY <2>1 DEF Pending
  <2>. QED
    BY <2>1, <2>2, FewerPending DEF TypeOK
<1>. QED
  BY <1>2, <1>3, <1>4, <1>6, <1>7, <1>8, <1>9, <1>10, <1>11
     DEF Next, Admission, Release, ReleaseSuccess, ReleaseFailure, ReleaseClientGone

\* However many admissions load the lease count together, they pass the concurrency
\* limit by less than one each.
THEOREM OvershootIsBounded == Spec => []OvershootBounded
<1>1. Init => OvershootInv
  <2>1. Init => Pending = {}
    BY DEF Init, Pending
  <2>2. Cardinality({}) = 0 /\ Cardinality(Threads) \in Nat
    BY ThreadsAssumption, FS_EmptySet, FS_CardinalityType
  <2>. QED
    BY <2>1, <2>2, CeilingType DEF Init, OvershootInv, AfterInv, Fallback
<1>2. TypeOK /\ OvershootInv => OvershootBounded
  <2>1. Pending \in SUBSET Threads
    BY DEF Pending
  <2>2. Cardinality(Pending) \in Nat /\ Cardinality(Threads) \in Nat
    BY <2>1, PendingFinite
  <2>. QED
    BY <2>2, CeilingType DEF OvershootInv, OvershootBounded, TypeOK
<1>3. OwnersInv => AfterInv
  BY DEF OwnersInv
<1>. QED
  BY <1>1, <1>2, <1>3, Typing, OwnersInit, OwnersStep, OvershootStep, PTL DEF Spec

-----------------------------------------------------------------------------
(* What is served stays charged *)

(* A set of naturals has a least element. *)
LEMMA Least ==
  ASSUME NEW T \in SUBSET Nat, T # {}
  PROVE  \E n \in T : \A m \in T : n <= m
<1>1. PICK n \in T : \A m \in T : ~(<<m, n>> \in OpToRel(<, Nat)) BY NatLessThanWellFounded, WFMin
<1>2. \A m \in T : ~(m < n) BY <1>1 DEF OpToRel
<1>3. QED BY <1>2

\* What the tasks of s were charged of k, unit by unit.
Units(c, s, k) == UNION {{t} \X (1..c[t][k]) : t \in s}

(* One task's units come on top of the others'. *)
LEMMA UnitsOfOne ==
  ASSUME NEW c, NEW s \in SUBSET Threads, NEW k, \A t \in s : c[t][k] \in Nat
  PROVE  /\ IsFiniteSet(Units(c, s, k)) /\ Cardinality(Units(c, s, k)) \in Nat
         /\ \A t \in s : Cardinality(Units(c, s, k)) = c[t][k] + Cardinality(Units(c, s \ {t}, k))
<1>1. ASSUME NEW t \in s
      PROVE  /\ IsFiniteSet({t} \X (1..c[t][k]))
             /\ Cardinality({t} \X (1..c[t][k])) = c[t][k]
  <2> DEFINE n == c[t][k]
  <2>1. IsFiniteSet({t}) /\ Cardinality({t}) = 1 BY FS_Singleton
  <2>2. n \in Nat OBVIOUS
  <2> HIDE DEF n
  <2>3. IsFiniteSet(1..n) /\ Cardinality(1..n) = IF 1 > n THEN 0 ELSE n - 1 + 1
    <3>1. 1 \in Int /\ n \in Int BY <2>2
    <3>2. QED BY <3>1, FS_Interval
  <2>4. Cardinality(1..n) = n BY <2>2, <2>3
  <2>5. IsFiniteSet({t} \X (1..n)) /\ Cardinality({t} \X (1..n)) = 1 * n
    <3> DEFINE A == {t}
               B == 1..n
    <3>1. IsFiniteSet(A) /\ Cardinality(A) = 1 /\ IsFiniteSet(B) /\ Cardinality(B) = n
      BY <2>1, <2>3, <2>4
    <3> HIDE DEF A, B
    <3>2. IsFiniteSet(A \X B) /\ Cardinality(A \X B) = 1 * n BY <3>1, FS_Product
    <3>3. QED BY <3>2 DEF A, B
  <2>6. Cardinality({t} \X (1..n)) = n BY <2>2, <2>5
  <2>7. QED BY <2>5, <2>6 DEF n
<1>2. \A r \in SUBSET s : IsFiniteSet(Units(c, r, k))
  <2> SUFFICES ASSUME NEW r \in SUBSET s PROVE IsFiniteSet(Units(c, r, k)) OBVIOUS
  <2> DEFINE one(t) == {t} \X (1..c[t][k])
  <2>1. IsFiniteSet(r) BY ThreadsAssumption, FS_Subset
  <2>2. IsFiniteSet({one(t) : t \in r})
    <3> DEFINE f == [t \in r |-> one(t)]
    <3>1. f \in [r -> {one(t) : t \in r}] /\ {one(t) : t \in r} = {f[t] : t \in r} OBVIOUS
    <3> HIDE DEF f
    <3>2. f \in Surjection(r, {one(t) : t \in r}) BY <3>1 DEF Surjection
    <3>3. QED BY <2>1, <3>2, FS_Surjection
  <2>3. \A u \in {one(t) : t \in r} : IsFiniteSet(u) BY <1>1
  <2>4. QED BY <2>2, <2>3, FS_UNION DEF Units
<1>3. ASSUME NEW t \in s
      PROVE  Cardinality(Units(c, s, k)) = c[t][k] + Cardinality(Units(c, s \ {t}, k))
  <2>1. Units(c, s, k) = ({t} \X (1..c[t][k])) \cup Units(c, s \ {t}, k) BY DEF Units
  <2>2. ({t} \X (1..c[t][k])) \cap Units(c, s \ {t}, k) = {} BY DEF Units
  <2>3. IsFiniteSet(Units(c, s \ {t}, k)) BY <1>2
  <2>4. Cardinality(Units(c, s \ {t}, k)) \in Nat BY <2>3, FS_CardinalityType
  <2> DEFINE A == {t} \X (1..c[t][k])
             B == Units(c, s \ {t}, k)
  <2>5. IsFiniteSet(A) /\ Cardinality(A) = c[t][k] /\ c[t][k] \in Nat BY <1>1
  <2> HIDE DEF A, B
  <2>6. Cardinality(A \cup B) = Cardinality(A) + Cardinality(B) - Cardinality(A \cap B)
    BY <2>3, <2>5, FS_Union DEF B
  <2>7. Cardinality(A \cap B) = 0 BY <2>2, FS_EmptySet DEF A, B
  <2>8. Cardinality(A \cup B) = c[t][k] + Cardinality(B) BY <2>4, <2>5, <2>6, <2>7 DEF B
  <2>9. QED BY <2>1, <2>8 DEF A, B
<1>4. QED BY <1>2, <1>3, FS_CardinalityType

(* The sum of the charges counts them. *)
LEMMA ChargedIsUnits ==
  ASSUME NEW k, \A t \in Holders : cost[t][k] \in Nat
  PROVE  Charged(k) = Cardinality(Units(cost, Holders, k))
<1> DEFINE S == Holders
           Rule(iter) == iter = [s \in SUBSET S |->
                            IF s = {} THEN 0
                            ELSE LET x == CHOOSE x \in s : TRUE IN cost[x][k] + iter[s \ {x}]]
           sum == [s \in SUBSET S |-> Cardinality(Units(cost, s, k))]
<1>0. Charged(k) = (CHOOSE iter : Rule(iter))[S]
  BY DEF Charged, MapThenSumSet, MapThenFoldSet
<1>1. S \in SUBSET Threads BY DEF Holders
<1>2. Units(cost, {}, k) = {} /\ Cardinality({}) = 0 BY FS_EmptySet DEF Units
<1> HIDE DEF S
<1>3. \A s \in SUBSET S : s # {} =>
         LET x == CHOOSE x \in s : TRUE
         IN  x \in s /\ Cardinality(Units(cost, s, k)) = cost[x][k] + Cardinality(Units(cost, s \ {x}, k))
  <2> SUFFICES ASSUME NEW s \in SUBSET S, s # {}, NEW x, x = CHOOSE y \in s : TRUE
               PROVE x \in s /\ Cardinality(Units(cost, s, k)) = cost[x][k] + Cardinality(Units(cost, s \ {x}, k))
    OBVIOUS
  <2>1. x \in s OBVIOUS
  <2>2. s \in SUBSET Threads /\ \A t \in s : cost[t][k] \in Nat BY <1>1 DEF S
  <2>3. \A t \in s : Cardinality(Units(cost, s, k)) = cost[t][k] + Cardinality(Units(cost, s \ {t}, k))
    BY <2>2, UnitsOfOne
  <2>4. QED BY <2>1, <2>3
<1>4. Rule(sum)
  <2>1. \A s \in SUBSET S :
          sum[s] = IF s = {} THEN 0
                   ELSE LET x == CHOOSE x \in s : TRUE IN cost[x][k] + sum[s \ {x}]
    BY <1>2, <1>3
  <2>2. sum = [s \in SUBSET S |-> sum[s]] OBVIOUS
  <2> HIDE DEF sum
  <2>3. QED BY <2>1, <2>2
<1>5. ASSUME NEW iter, Rule(iter) PROVE iter[S] = sum[S]
  <2> DEFINE odd == {s \in SUBSET S : iter[s] # sum[s]}
             sizes == {Cardinality(s) : s \in odd}
  <2>1. \A s \in SUBSET S : IsFiniteSet(s) /\ Cardinality(s) \in Nat
    BY <1>1, ThreadsAssumption, FS_Subset, FS_CardinalityType
  <2>2. SUFFICES ASSUME odd # {} PROVE FALSE OBVIOUS
  <2>3. sizes \in SUBSET Nat /\ sizes # {} BY <2>1, <2>2
  <2>4. PICK n \in sizes : \A m \in sizes : n <= m BY <2>3, Least
  <2>5. PICK s \in odd : n = Cardinality(s) BY <2>4
  <2>6. iter[s] = IF s = {} THEN 0
                  ELSE LET x == CHOOSE x \in s : TRUE IN cost[x][k] + iter[s \ {x}]
    BY <1>5, <2>5
  <2>7. sum[s] = IF s = {} THEN 0
                  ELSE LET x == CHOOSE x \in s : TRUE IN cost[x][k] + sum[s \ {x}]
    BY <1>4, <2>5
  <2> HIDE DEF Rule, sum
  <2>8. s # {} BY <2>5, <2>6, <2>7
  <2> DEFINE x == CHOOSE x \in s : TRUE
  <2>9. x \in s BY <2>8
  <2>10. iter[s \ {x}] # sum[s \ {x}] BY <2>5, <2>6, <2>7, <2>8
  <2>11. s \ {x} \in odd BY <2>5, <2>10
  <2>12. Cardinality(s \ {x}) = Cardinality(s) - 1 BY <2>1, <2>5, <2>9, FS_RemoveElement
  <2>13. Cardinality(s \ {x}) \in sizes BY <2>11
  <2>14. n <= Cardinality(s \ {x}) BY <2>4, <2>13
  <2>15. QED BY <2>1, <2>5, <2>12, <2>14
<1>6. Rule(CHOOSE iter : Rule(iter)) BY <1>4
<1> HIDE DEF Rule
<1>7. (CHOOSE iter : Rule(iter))[S] = sum[S] BY <1>5, <1>6
<1>8. QED BY <1>0, <1>7 DEF S

-----------------------------------------------------------------------------
\* A refused admission is charged until its refund.
Charging == Holders \cup {t \in Threads : pc[t] = "refund"}
SpentInv == \A k \in Resources : Cardinality(Units(cost, Charging, k)) <= used[k]

(* Fewer tasks, or cheaper ones, have fewer units. *)
LEMMA FewerUnits ==
  ASSUME NEW k, TypeOK, TypeOK', k \in Resources, Charging' \subseteq Charging,
         \A t \in Charging' : cost'[t] = cost[t]
  PROVE  Cardinality(Units(cost', Charging', k)) <= Cardinality(Units(cost, Charging, k))
<1>1. Charging \in SUBSET Threads BY DEF Charging, Holders
<1>2. \A t \in Threads : cost[t][k] \in Nat BY CostType
<1>3. IsFiniteSet(Units(cost, Charging, k)) BY <1>1, <1>2, UnitsOfOne
<1>4. Units(cost', Charging', k) \subseteq Units(cost, Charging, k)
  <2>1. \A t \in Charging' : {t} \X (1..cost'[t][k]) = {t} \X (1..cost[t][k]) OBVIOUS
  <2>2. QED BY <2>1 DEF Units
<1>5. QED BY <1>3, <1>4, FS_Subset

(* A window's charge that keeps up with the units. *)
LEMMA SpentKept ==
  ASSUME TypeOK, TypeOK', SpentInv, Charging' \subseteq Charging,
         \A t \in Charging' : cost'[t] = cost[t],
         \A k \in Resources : used'[k] >= used[k]
  PROVE  SpentInv'
<1> SUFFICES ASSUME NEW k \in Resources PROVE Cardinality(Units(cost', Charging', k)) <= used'[k]
  BY DEF SpentInv
<1>1. Cardinality(Units(cost', Charging', k)) <= Cardinality(Units(cost, Charging, k)) BY FewerUnits
<1>2. Cardinality(Units(cost, Charging, k)) <= used[k] BY DEF SpentInv
<1>3. used[k] \in Nat /\ used'[k] \in Nat /\ used'[k] >= used[k] BY DEF TypeOK
<1>4. Charging \in SUBSET Threads /\ \A t \in Threads : cost[t][k] \in Nat
  BY CostType DEF Charging, Holders
<1>5. Cardinality(Units(cost, Charging, k)) \in Nat BY <1>4, UnitsOfOne
<1>6. Charging' \in SUBSET Threads /\ \A t \in Threads : cost'[t][k] \in Nat
  <2>1. \A t \in Threads : cost'[t] \in [Resources -> Nat] BY CostsAssumption DEF TypeOK, NoCost
  <2>2. QED BY <2>1 DEF Charging, Holders
<1>7. Cardinality(Units(cost', Charging', k)) \in Nat BY <1>6, UnitsOfOne
<1>8. QED BY <1>1, <1>2, <1>3, <1>5, <1>7

LEMMA SpentStep == TypeOK /\ TypeOK' /\ AfterInv /\ SpentInv /\ [Next]_vars => SpentInv'
<1> SUFFICES ASSUME TypeOK, TypeOK', AfterInv, SpentInv, [Next]_vars PROVE SpentInv'
  OBVIOUS
<1> DEFINE Charges == {"global", "remember", "rollback", "serving", "refund"}
<1>1. Charging = {t \in Threads : pc[t] \in Charges} /\ Charging' = {t \in Threads : pc'[t] \in Charges}
  BY DEF Charging, Holders, Holding
<1>2. \A k \in Resources : used[k] \in Nat /\ \A t \in Threads : cost[t][k] \in Nat
  BY CostType DEF TypeOK
<1> HIDE DEF Charges
<1>3. ASSUME NEW t \in Threads, NEW s \in PC, GoTo(t, s) \/ (\E o \in PC : Attempt(t, s, o)),
             pc[t] \in Charges \/ s \notin Charges, \A k \in Resources : used'[k] >= used[k]
      PROVE  SpentInv'
  <2>1. /\ \A u \in Threads \ {t} : pc'[u] = pc[u] /\ cost'[u] = cost[u]
        /\ pc'[t] = s /\ (s # "idle" => cost' = cost)
    BY <1>3 DEF GoTo, Attempt, TypeOK
  <2>2. Charging' \subseteq Charging BY <1>1, <1>3, <2>1
  <2>3. \A u \in Charging' : cost'[u] = cost[u] BY <1>1, <2>1 DEF Charges
  <2>4. QED BY <1>3, <2>2, <2>3, SpentKept
<1>4. ASSUME NEW t \in Threads, NEW c \in Costs, Arrive(t, c) PROVE SpentInv'
  <2>1. /\ \A u \in Threads \ {t} : pc'[u] = pc[u] /\ cost'[u] = cost[u]
        /\ pc'[t] \in {"sticky", "sample"} /\ used' = used
    BY <1>4 DEF Arrive, node, TypeOK
  <2>2. Charging' \subseteq Charging /\ \A u \in Charging' : cost'[u] = cost[u]
    BY <1>1, <2>1 DEF Charges
  <2>3. QED BY <1>2, <2>1, <2>2, SpentKept
<1>5. ASSUME NEW t \in Threads, Sample(t) \/ Scan(t) \/ Best(t) PROVE SpentInv'
  <2>1. PICK s \in {"load", "scan", "diagLoad", "best", "sticky", "idle"} :
          GoTo(t, s) \/ \E o \in PC : Attempt(t, s, o)
    BY <1>5 DEF Sample, Scan, Best, PC
  <2>2. used' = used BY <1>5 DEF Sample, Scan, Best, node
  <2>3. s \in PC /\ s \notin Charges BY DEF PC, Charges
  <2>4. QED BY <1>2, <1>3, <2>1, <2>2, <2>3
<1>6. ASSUME NEW t \in Threads, Load(t) PROVE SpentInv'
  <2>1. /\ \A u \in Threads \ {t} : pc'[u] = pc[u]
        /\ pc'[t] \in {"admit", "diagAdmit"} /\ used' = used /\ cost' = cost
    BY <1>6 DEF Load, node, TypeOK
  <2>2. Charging' \subseteq Charging BY <1>1, <2>1 DEF Charges
  <2>3. QED BY <1>2, <2>1, <2>2, SpentKept
<1>7. ASSUME NEW t \in Threads, Admit(t) PROVE SpentInv'
  <2>1. /\ \A u \in Threads \ {t} : pc'[u] = pc[u]
        /\ pc[t] = "admit" /\ pc'[t] = "global" /\ cost' = cost
        /\ \A k \in Resources : used'[k] = used[k] + cost[t][k]
    BY <1>7 DEF Admit, Charge, GoTo, TypeOK
  <2>2. t \in Charging' /\ Charging' \ {t} = Charging /\ Charging' \in SUBSET Threads
    BY <1>1, <2>1 DEF Charges
  <2> SUFFICES ASSUME NEW k \in Resources PROVE Cardinality(Units(cost', Charging', k)) <= used'[k]
    BY DEF SpentInv
  <2>3. Cardinality(Units(cost, Charging', k)) = cost[t][k] + Cardinality(Units(cost, Charging, k))
    <3>1. \A u \in Charging' : cost[u][k] \in Nat BY <1>2, <2>2
    <3>2. QED BY <2>2, <3>1, UnitsOfOne
  <2>4. Cardinality(Units(cost, Charging, k)) \in Nat
    <3>1. Charging \in SUBSET Threads /\ \A u \in Charging : cost[u][k] \in Nat BY <1>2, <2>2
    <3>2. QED BY <3>1, UnitsOfOne
  <2>5. Cardinality(Units(cost, Charging, k)) <= used[k] BY DEF SpentInv
  <2>6. QED BY <1>2, <2>1, <2>3, <2>4, <2>5
<1>8. ASSUME NEW t \in Threads, Diagnose(t) PROVE SpentInv'
  <2>1. pc[t] = "diagAdmit" /\ GoTo(t, "best") BY <1>8 DEF Diagnose
  <2>2. \A k \in Resources : used'[k] >= used[k] BY <1>2, <1>8 DEF Diagnose, Charge
  <2>3. "best" \in PC /\ "best" \notin Charges BY DEF PC, Charges
  <2>4. QED BY <1>3, <2>1, <2>2, <2>3
<1>9. ASSUME NEW t \in Threads, Refuse(t) PROVE SpentInv'
  <2>1. GoTo(t, after[t]) /\ used' = used BY <1>9 DEF Refuse
  <2>2. after[t] \in PC /\ after[t] \notin Charges BY DEF AfterInv, Fallback, PC, Charges
  <2>3. QED BY <1>2, <1>3, <2>1, <2>2
<1>10. ASSUME NEW t \in Threads,
              GlobalAdmits(t) \/ GlobalRejects(t) \/ GlobalDown(t) \/ Remember(t) \/ Rollback(t) \/ GiveBack(t)
       PROVE  SpentInv'
  <2>1. PICK s \in PC : GoTo(t, s)
    BY <1>10 DEF GlobalAdmits, GlobalRejects, GlobalDown, Remember, Rollback, GiveBack, PC
  <2>2. used' = used /\ pc[t] \in Charges
    BY <1>10 DEF GlobalAdmits, GlobalRejects, GlobalDown, Remember, Rollback, GiveBack, node, Charges
  <2>3. QED BY <1>2, <1>3, <2>1, <2>2
<1>11. ASSUME NEW t \in Threads, RollbackBudget(t) PROVE SpentInv'
  <2>1. after[t] \notin Charges BY DEF AfterInv, Fallback, Charges
  <2>2. /\ \A u \in Threads \ {t} : pc'[u] = pc[u] /\ cost'[u] = cost[u]
        /\ pc[t] = "refund" /\ pc'[t] = after[t]
        /\ \A k \in Resources : used'[k] = Larger(used[k] - cost[t][k], 0)
    BY <1>11 DEF RollbackBudget, Refund, GoTo, TypeOK
  <2>3. t \in Charging /\ Charging' = Charging \ {t} /\ Charging \in SUBSET Threads
    BY <1>1, <2>1, <2>2 DEF Charges
  <2> SUFFICES ASSUME NEW k \in Resources PROVE Cardinality(Units(cost', Charging', k)) <= used'[k]
    BY DEF SpentInv
  <2>4. Units(cost', Charging', k) = Units(cost, Charging \ {t}, k)
    <3>1. \A u \in Charging' : {u} \X (1..cost'[u][k]) = {u} \X (1..cost[u][k]) BY <2>2, <2>3
    <3>2. QED BY <2>3, <3>1 DEF Units
  <2>5. \A u \in Charging : cost[u][k] \in Nat BY <1>2, <2>3
  <2>6. Cardinality(Units(cost, Charging, k)) = cost[t][k] + Cardinality(Units(cost, Charging \ {t}, k))
    BY <2>3, <2>5, UnitsOfOne
  <2>7. Cardinality(Units(cost, Charging \ {t}, k)) \in Nat
    <3>1. Charging \ {t} \in SUBSET Threads /\ \A u \in Charging \ {t} : cost[u][k] \in Nat
      BY <2>3, <2>5
    <3>2. QED BY <3>1, UnitsOfOne
  <2>8. Cardinality(Units(cost, Charging, k)) <= used[k] BY DEF SpentInv
  <2>9. cost[t][k] \in Nat /\ used[k] \in Nat BY <1>2
  <2>10. QED BY <2>2, <2>4, <2>6, <2>7, <2>8, <2>9 DEF Larger
<1>12. CASE Tick \/ UNCHANGED vars
  <2>1. UNCHANGED <<pc, cost, used>> BY <1>12 DEF Tick, vars
  <2>2. Charging' = Charging BY <2>1, <1>1
  <2>3. QED BY <1>2, <2>1, <2>2, SpentKept
<1>. QED
  BY <1>4, <1>5, <1>6, <1>7, <1>8, <1>9, <1>10, <1>11, <1>12
     DEF Next, Admission, Release, ReleaseSuccess, ReleaseFailure, ReleaseClientGone

\* For any tasks, costs and clocks parallel admissions, rollbacks and releases
\* together keep the node's limits: what is being served stays charged, no window
\* counter passes its limit, and the concurrency limit is passed by less than one
\* for each task.
THEOREM LimitsAreHonoured == Spec => []LimitsHonoured
<1>1. Init => SpentInv
  <2>1. Init => Charging = {} BY DEF Init, Charging, Holders, Holding
  <2>2. \A k : Units(cost, {}, k) = {} BY DEF Units
  <2>3. Cardinality({}) = 0 BY FS_EmptySet
  <2>4. Init => \A k \in Resources : used[k] = 0 BY DEF Init
  <2>5. QED BY <2>1, <2>2, <2>3, <2>4 DEF SpentInv
<1>2. TypeOK /\ SpentInv => ServedStaysCharged
  <2> SUFFICES ASSUME TypeOK, SpentInv, NEW k \in Resources PROVE Charged(k) <= used[k]
    BY DEF ServedStaysCharged
  <2>1. Charging \in SUBSET Threads /\ Holders \subseteq Charging BY DEF Charging, Holders
  <2>2. \A t \in Threads : cost[t][k] \in Nat BY CostType
  <2>3. Charged(k) = Cardinality(Units(cost, Holders, k)) BY <2>1, <2>2, ChargedIsUnits
  <2>4. IsFiniteSet(Units(cost, Charging, k)) BY <2>1, <2>2, UnitsOfOne
  <2>5. Units(cost, Holders, k) \subseteq Units(cost, Charging, k) BY <2>1 DEF Units
  <2>6. /\ Cardinality(Units(cost, Holders, k)) <= Cardinality(Units(cost, Charging, k))
        /\ IsFiniteSet(Units(cost, Holders, k))
    BY <2>4, <2>5, FS_Subset
  <2>7. Cardinality(Units(cost, Charging, k)) <= used[k] /\ used[k] \in Nat BY DEF SpentInv, TypeOK
  <2>8. /\ Cardinality(Units(cost, Holders, k)) \in Nat
        /\ Cardinality(Units(cost, Charging, k)) \in Nat
    BY <2>4, <2>6, FS_CardinalityType
  <2>9. QED BY <2>3, <2>6, <2>7, <2>8
<1>3. OwnersInv => AfterInv BY DEF OwnersInv
<1>4. Spec => []ServedStaysCharged
  BY <1>1, <1>2, <1>3, Typing, OwnersInit, OwnersStep, SpentStep, PTL DEF Spec
<1>5. WindowKept /\ OvershootBounded /\ ServedStaysCharged => LimitsHonoured BY DEF LimitsHonoured
<1>. QED BY <1>4, <1>5, WindowIsKept, OvershootIsBounded, PTL
=============================================================================
