--------------------------- MODULE Parts_proofs ---------------------------
(***************************************************************************)
(* Proofs about the parts of Parts, for any values of their constants:     *)
(* about the node pool, whose leases they are, by how much the limit may   *)
(* be passed while the count is exact, and that no operation by itself     *)
(* loses a node from the pools; about session pins, what a clear leaves;   *)
(* about delivery, that every answer is recorded once and as it was        *)
(* reported, but for the ways listed; and about the kernel's readers.      *)
(*                                                                         *)
(* LeasesCovered is not inductive: that an unregistered node counts zero   *)
(* leases is what keeps a release from being lost on a node whose PoolNode *)
(* is gone, and the admissions between the load of a count and its         *)
(* increment bound what they add to it; Leasing below carries both along,  *)
(* with the exact count for the nodes whose history no recovery has        *)
(* disturbed.  Nor is KeptInSomePool: an operation on a node relies on     *)
(* where it found it, and that holds because there is one at a time on a   *)
(* node that is not excused (Kept), and an admission finds its node where  *)
(* it loaded the count (Leasing).  PinGone needs that nothing but a record *)
(* fills Redis while a clear is on its way to the memory (ClearInv).  What *)
(* the counters, the ring and the windows have of a record depends on how  *)
(* far its writer is, and that it has one writer only (DeliveryInv).       *)
(*                                                                         *)
(* The readers of streams: the bytes that were read and not yet taken for  *)
(* frames are those after the last frame that has come in whole            *)
(* (ReaderState), so what the loop finds of them and a chunk is known from *)
(* the stream alone (FramesFound).                                         *)
(***************************************************************************)
EXTENDS Parts, FiniteSetTheorems, SequenceTheorems, WellFoundedInduction, TLAPS

(* The part of LeaseInv that is not typing, node by node. *)
Leased(n) ==
  /\ n \notin dispatch => leases[n] = 0 /\ InAdmission(n) = {}
  /\ leases[n] + Cardinality(InAdmission(n)) < MaxConcurrent + crowd[n]
  /\ Cardinality(InAdmission(n)) <= crowd[n]
  /\ leases[n] <= Cardinality(Holders(n)) + leaked[n]
  /\ n \notin stolen => leases[n] = Cardinality(Holders(n)) + leaked[n]
Leasing == \A n \in Nodes : Leased(n)

-----------------------------------------------------------------------------
(* Types *)

(* Ending a probe task, or moving it on, keeps it a probe task. *)
LEMMA ProbeTasks ==
  ASSUME probe \in [Probes -> ProbeTask], NEW p \in Probes,
         \/ EndProbe(p)
         \/ \E s \in Steps : GoTo(p, s)
  PROVE  probe' \in [Probes -> ProbeTask]
<1>1. CASE EndProbe(p)
  <2>1. Task("none", probe[p].node, FALSE) \in ProbeTask
    BY DEF Task, ProbeTask, Kinds, Steps
  <2>2. QED BY <1>1, <2>1 DEF EndProbe
<1>2. ASSUME NEW s \in Steps, GoTo(p, s)
      PROVE  probe' \in [Probes -> ProbeTask]
  <2>1. [probe[p] EXCEPT !.step = s] \in ProbeTask
    BY DEF ProbeTask
  <2>2. QED BY <1>2, <2>1 DEF GoTo
<1>3. QED BY <1>1, <1>2

(* A call that moves on or leaves a node stays a call. *)
LEMMA CallTypes ==
  ASSUME admin \in Call
  PROVE  /\ \A op \in {"fuse", "unfuse"}, ids \in SUBSET Nodes :
              Sweeping(op, ids) => admin' \in Call
         /\ \A n \in Nodes : Visiting(n, "bury") => admin' \in Call
         /\ \A n \in Nodes : Visiting(n, "undead") => admin' \in Call
         /\ \A s \in {"undead", "unlimit", "forget", "rejoin", "credit"} :
              AdminGoes(s) => admin' \in Call
         /\ \A n \in Nodes : Visited(n) => admin' \in Call
<1> USE DEF Call
<1>2. \A op \in {"fuse", "unfuse"}, ids \in SUBSET Nodes : Sweeping(op, ids) => admin' \in Call
  BY DEF Sweeping
<1>3. \A n \in Nodes : Visited(n) => admin' \in Call
  BY DEF Visited, Sweeping
<1>4. \A n \in Nodes : Visiting(n, "bury") => admin' \in Call
  BY DEF Visiting
<1>5. \A n \in Nodes : Visiting(n, "undead") => admin' \in Call
  BY DEF Visiting
<1>6. \A s \in {"undead", "unlimit", "forget", "rejoin", "credit"} : AdminGoes(s) => admin' \in Call
  BY DEF AdminGoes
<1>7. QED BY <1>2, <1>3, <1>4, <1>5, <1>6

(* Every step preserves the types. *)
LEMMA TypeStep == TypeOK /\ [Next]_vars => TypeOK'
<1> SUFFICES ASSUME TypeOK, [Next]_vars PROVE TypeOK'
  OBVIOUS
<1> USE MaxConcurrentAssumption, MaxOpsAssumption, AbsentAssumption DEF TypeOK
<1>1. ASSUME NEW r \in Requests, RequestStep(r) PROVE TypeOK'
  <2> USE DEF PC, Loaded, Reporting, pools, history
  <2>1. CASE Start(r) BY <2>1 DEF Start
  <2>2. ASSUME NEW n \in Nodes, NEW s \in Loaded, Load(r, n, s) PROVE TypeOK'
    BY <2>2 DEF Load
  <2>3. CASE Admit(r) BY <2>3 DEF Admit
  <2>4. CASE Diagnose(r) BY <2>4 DEF Diagnose
  <2>5. CASE Refuse(r) BY <2>5 DEF Refuse
  <2>6. CASE AdmitNothing(r) BY <2>6 DEF AdmitNothing
  <2>7. CASE Enter(r) BY <2>7 DEF Enter
  <2>8. CASE Abandon(r) BY <2>8 DEF Abandon
  <2>9. CASE ReportPlain(r) BY <2>9 DEF ReportPlain, Released
  <2>10. CASE Report429(r) BY <2>10 DEF Report429, Begins
  <2>11. CASE Report429Releases(r)
    BY <2>11 DEF Report429Releases, Released
  <2>12. CASE ReportError(r) BY <2>12 DEF ReportError, Released, Begins
  <2>13. CASE ReportWithdraws(r) BY <2>13 DEF ReportWithdraws, Withdraw
  <2>14. CASE ReportBuries(r) BY <2>14 DEF ReportBuries, Bury
  <2>15. CASE \E p \in Probes : ReportSpawns(r, p)
    BY <2>15 DEF ReportSpawns, Task, ProbeTask, Kinds, Steps
  <2>16. QED
    BY <1>1, <2>1, <2>2, <2>3, <2>4, <2>5, <2>6, <2>7, <2>8, <2>9, <2>10,
       <2>11, <2>12, <2>13, <2>14, <2>15 DEF RequestStep
<1>2. ASSUME NEW p \in Probes, ProbeStep(p) PROVE TypeOK'
  <2> USE DEF ProbeTask, Kinds, Steps, pools, history
  <2>1. CASE \E n \in Nodes : SpawnPeriodic(p, n)
    BY <2>1 DEF SpawnPeriodic, Task, Begins
  <2>2. CASE \E n \in Nodes : SpawnDead(p, n)
    BY <2>2 DEF SpawnDead, Task, Begins
  <2>3. CASE ProbeFails(p) BY <2>3, ProbeTasks DEF ProbeFails
  <2>4. CASE ProbeRecovers(p)
    <3>1. EndProbe(p) \/ GoTo(p, "restore") BY <2>4 DEF ProbeRecovers
    <3>2. probe' \in [Probes -> ProbeTask] BY <3>1, ProbeTasks DEF TypeOK
    <3>3. probe[p].node \in Nodes OBVIOUS
    <3>4. QED BY <2>4, <3>2, <3>3 DEF ProbeRecovers
  <2>5. ASSUME NEW ok \in BOOLEAN, DeadProbeAnswers(p, ok) PROVE TypeOK'
    <3>1. EndProbe(p) \/ GoTo(p, "undead") BY <2>5 DEF DeadProbeAnswers
    <3>2. probe' \in [Probes -> ProbeTask] BY <3>1, ProbeTasks DEF TypeOK
    <3>3. dead' \in [Nodes -> Nat \cup {Absent}]
      BY <2>5 DEF DeadProbeAnswers, IsDead
    <3>4. QED BY <2>5, <3>2, <3>3 DEF DeadProbeAnswers
  <2>6. CASE DeadProbeRecovers(p)
    <3>1. probe' \in [Probes -> ProbeTask]
      BY <2>6, ProbeTasks DEF DeadProbeRecovers
    <3>2. QED BY <2>6, <3>1 DEF DeadProbeRecovers, Undead
  <2>7. CASE DeadProbeUnlimits(p)
    <3>1. EndProbe(p) \/ GoTo(p, "restore") BY <2>7 DEF DeadProbeUnlimits
    <3>2. probe' \in [Probes -> ProbeTask] BY <3>1, ProbeTasks DEF TypeOK
    <3>3. probe[p].node \in Nodes OBVIOUS
    <3>4. QED BY <2>7, <3>2, <3>3 DEF DeadProbeUnlimits
  <2>8. CASE ProbeRestores(p)
    <3>1. probe' \in [Probes -> ProbeTask]
      BY <2>8, ProbeTasks DEF ProbeRestores
    <3>2. QED BY <2>8, <3>1 DEF ProbeRestores, Rejoin
  <2>9. CASE ProbeCredits(p)
    <3>1. probe' \in [Probes -> ProbeTask]
      BY <2>9, ProbeTasks DEF ProbeCredits
    <3>2. QED BY <2>9, <3>1 DEF ProbeCredits, Credit, Released
  <2>10. QED
    BY <1>2, <2>1, <2>2, <2>3, <2>4, <2>5, <2>6, <2>7, <2>8, <2>9 DEF ProbeStep
<1>3. ASSUME AdminStep PROVE TypeOK'
  <2> USE DEF pools, history
  <2>0. admin.node \in Nodes BY DEF Call
  <2>1. CASE FuseAll
    <3>1. ops' \in 0..MaxOps BY <2>1 DEF FuseAll, Sweeps, AdminCall
    <3>2. admin' \in Call BY <2>1, CallTypes DEF FuseAll, Sweeps
    <3>3. QED BY <2>1, <3>1, <3>2 DEF FuseAll, Sweeps
  <2>2. CASE UnfuseAll
    <3>1. {n \in Nodes : IsDead(n)} \in SUBSET Nodes OBVIOUS
    <3>2. admin' \in Call BY <2>2, <3>1, CallTypes DEF UnfuseAll, Sweeps
    <3>3. excused' \in SUBSET Nodes BY <2>2, <3>1 DEF UnfuseAll, Sweeps
    <3>4. ops' \in 0..MaxOps BY <2>2 DEF UnfuseAll, Sweeps, AdminCall
    <3>5. QED BY <2>2, <3>2, <3>3, <3>4, Zenon DEF UnfuseAll
  <2>3. ASSUME NEW n \in Nodes, FuseNode(n) PROVE TypeOK'
    <3>1. admin' \in Call BY <2>3, CallTypes DEF FuseNode
    <3>2. QED BY <2>3, <3>1 DEF FuseNode, Withdraw
  <2>4. CASE FuseBuries
    <3>1. admin' \in Call BY <2>0, <2>4, CallTypes DEF FuseBuries
    <3>2. QED BY <2>4, <3>1 DEF FuseBuries, Bury
  <2>5. ASSUME NEW n \in Nodes, UnfuseNode(n) PROVE TypeOK'
    <3>1. admin' \in Call BY <2>5, CallTypes DEF UnfuseNode
    <3>2. QED BY <2>5, <3>1 DEF UnfuseNode, Rejoin
  <2>6. CASE UnfuseRecovers
    <3>1. admin' \in Call BY <2>0, <2>6, CallTypes DEF UnfuseRecovers
    <3>2. QED BY <2>6, <3>1 DEF UnfuseRecovers, Undead
  <2>7. ASSUME NEW n \in Nodes, AddNode(n) PROVE TypeOK'
    <3>1. [op |-> "add", todo |-> {n}, node |-> n, step |-> "register"] \in Call BY DEF Call
    <3>2. admin' \in Call /\ ops' \in 0..MaxOps BY <2>7, <3>1, MaxOpsAssumption DEF AddNode, Calls, AdminCall
    <3>3. QED BY <2>7, <3>2 DEF AddNode, Rejoin, Begins
  <2>8. CASE AddRegisters
    <3>1. admin' \in Call BY <2>0, <2>8, CallTypes DEF AddRegisters
    <3>2. QED BY <2>0, <2>8, <3>1 DEF AddRegisters
  <2>9. ASSUME NEW n \in Nodes, RemoveNode(n) PROVE TypeOK'
    <3>1. [op |-> "remove", todo |-> {n}, node |-> n, step |-> "unlimit"] \in Call BY DEF Call
    <3>2. admin' \in Call /\ ops' \in 0..MaxOps BY <2>9, <3>1, MaxOpsAssumption DEF RemoveNode, Calls, AdminCall
    <3>3. QED BY <2>9, <3>2 DEF RemoveNode, Withdraw, Begins
  <2>10. CASE RemoveUnlimits
    <3>1. admin' \in Call BY <2>10, CallTypes DEF RemoveUnlimits
    <3>2. QED BY <2>10, <3>1 DEF RemoveUnlimits
  <2>11. CASE RemoveUndead
    <3>1. admin' \in Call BY <2>11, CallTypes DEF RemoveUndead
    <3>2. QED BY <2>11, <3>1 DEF RemoveUndead, Undead
  <2>12. CASE RemoveForgets
    <3>1. admin' \in Call BY <2>0, <2>12, CallTypes DEF RemoveForgets
    <3>2. QED BY <2>12, <3>1 DEF RemoveForgets
  <2>13. ASSUME NEW n \in Nodes, RecoverNode(n) PROVE TypeOK'
    <3>1. [op |-> "recover", todo |-> {n}, node |-> n, step |-> "unlimit"] \in Call BY DEF Call
    <3>2. admin' \in Call /\ ops' \in 0..MaxOps BY <2>13, <3>1, MaxOpsAssumption DEF RecoverNode, Calls, AdminCall
    <3>3. QED BY <2>13, <3>2 DEF RecoverNode, Undead, Begins
  <2>14. CASE RecoverUnlimits
    <3>1. admin' \in Call BY <2>14, CallTypes DEF RecoverUnlimits
    <3>2. QED BY <2>14, <3>1 DEF RecoverUnlimits
  <2>15. CASE RecoverFused
    <3>1. admin' \in Call BY <2>0, <2>15, CallTypes DEF RecoverFused
    <3>2. QED BY <2>0, <2>15, <3>1 DEF RecoverFused, Withdraw
  <2>16. CASE RecoverRejoins
    <3>1. admin' \in Call BY <2>16, CallTypes DEF RecoverRejoins
    <3>2. QED BY <2>0, <2>16, <3>1 DEF RecoverRejoins, Rejoin
  <2>17. CASE RecoverCredits
    <3>1. admin' \in Call BY <2>0, <2>17, CallTypes DEF RecoverCredits
    <3>2. QED BY <2>0, <2>17, <3>1 DEF RecoverCredits, Credit, Released
  <2>18. QED
    BY <1>3, <2>1, <2>2, <2>3, <2>4, <2>5, <2>6, <2>7, <2>8, <2>9, <2>10,
       <2>11, <2>12, <2>13, <2>14, <2>15, <2>16, <2>17 DEF AdminStep
<1>4. CASE UNCHANGED vars BY <1>4 DEF vars
<1>5. QED BY <1>1, <1>2, <1>3, <1>4 DEF Next

(* The pools, the lease counters and the tasks keep their types for ever. *)
THEOREM TypeCorrect == Spec => []TypeOK
<1>1. Init => TypeOK
  <2> SUFFICES ASSUME Init PROVE TypeOK
    OBVIOUS
  <2>1. probe \in [Probes -> ProbeTask]
    <3>1. [kind : {"none"}, step : {"running"}, node : Nodes, fused : {FALSE}]
            \subseteq ProbeTask
      BY DEF ProbeTask, Kinds, Steps
    <3>2. QED BY <3>1 DEF Init
  <2>2. ops \in 0..MaxOps BY MaxOpsAssumption DEF Init
  <2>3. pc \in [Requests -> PC] BY DEF Init, PC
  <2>4. admin \in Call BY DEF Init, Call
  <2>5. QED BY <2>1, <2>2, <2>3, <2>4 DEF Init, TypeOK
<1>2. QED BY <1>1, TypeStep, PTL DEF Spec

-----------------------------------------------------------------------------
(* Leases *)

HoldingAt == {"enter", "serving", "release429", "gone"}

(* The holders of a node's leases and the admissions at a node are some of
   finitely many requests. *)
LEMMA SetsFinite ==
  ASSUME NEW n
  PROVE  /\ IsFiniteSet(Holders(n)) /\ Cardinality(Holders(n)) \in Nat
         /\ IsFiniteSet(InAdmission(n)) /\ Cardinality(InAdmission(n)) \in Nat
BY RequestsAssumption, FS_Subset, FS_CardinalityType DEF Holders, InAdmission

(* A step that moves no request into or out of its holding steps, or out of or
   into an admission, keeps both sets of every node. *)
SameSets(n) == Holders(n)' = Holders(n) /\ InAdmission(n)' = InAdmission(n)
LEMMA SameMembers ==
  ASSUME at' = at,
         \A r \in Requests : /\ pc'[r] \in HoldingAt <=> pc[r] \in HoldingAt
                             /\ pc'[r] \in Loaded <=> pc[r] \in Loaded
  PROVE  \A n : SameSets(n)
BY DEF Holders, HoldingAt, InAdmission, SameSets

(* Steps that leave the sets and the counters of n alone keep what is known of
   it. *)
LEMMA LeasedKept ==
  ASSUME NEW n \in Nodes, Leased(n), SameSets(n),
         leases'[n] = leases[n], leaked'[n] = leaked[n], crowd'[n] = crowd[n],
         n \in dispatch => n \in dispatch', n \in stolen => n \in stolen'
  PROVE  Leased(n)'
BY DEF Leased, SameSets

LEMMA LeasingKept ==
  ASSUME Leasing, \A n : SameSets(n), UNCHANGED <<leases, leaked, crowd, stolen>>,
         dispatch \subseteq dispatch'
  PROVE  Leasing'
BY LeasedKept DEF Leasing

(* So does dropping the PoolNode of n, which no admission is at. *)
LEMMA LeasingWithdraw ==
  ASSUME TypeOK, Leasing, \A m : SameSets(m), NEW n \in Nodes, Withdraw(n)
  PROVE  Leasing'
<1>1. /\ ShardFree(n) /\ dispatch' = dispatch \ {n}
      /\ leases' = [leases EXCEPT ![n] = 0] /\ leaked' = [leaked EXCEPT ![n] = 0]
      /\ crowd' = [crowd EXCEPT ![n] = 1]
      /\ stolen' = IF leases[n] > 0 THEN stolen \cup {n} ELSE stolen
  BY DEF Withdraw
<1>2. ASSUME NEW m \in Nodes, m # n PROVE Leased(m)'
  <2>1. leases'[m] = leases[m] /\ leaked'[m] = leaked[m] /\ crowd'[m] = crowd[m]
    BY <1>1, <1>2 DEF TypeOK
  <2>2. Leased(m) /\ SameSets(m) BY DEF Leasing
  <2>3. (m \in dispatch => m \in dispatch') /\ (m \in stolen => m \in stolen')
    BY <1>1, <1>2
  <2>4. QED BY <2>1, <2>2, <2>3, LeasedKept
<1>3. Leased(n)'
  <2>1. leases'[n] = 0 /\ leaked'[n] = 0 /\ crowd'[n] = 1
    BY <1>1 DEF TypeOK
  <2>2. InAdmission(n)' = {} /\ Cardinality(InAdmission(n)') = 0
    BY <1>1, FS_EmptySet DEF ShardFree, SameSets
  <2>3. Cardinality(Holders(n)') \in Nat /\ Holders(n)' = Holders(n)
    BY SetsFinite DEF SameSets
  <2>4. n \notin stolen' => Cardinality(Holders(n)') = 0
    <3>1. n \notin stolen' => n \notin stolen /\ leases[n] = 0
      BY <1>1 DEF TypeOK
    <3>2. n \notin stolen' => 0 = Cardinality(Holders(n)) + leaked[n]
      BY <3>1 DEF Leasing, Leased
    <3>3. leaked[n] \in Nat BY DEF TypeOK
    <3>4. QED BY <2>3, <3>2, <3>3
  <2>5. QED BY <2>1, <2>2, <2>3, <2>4, MaxConcurrentAssumption DEF Leased
<1>4. QED BY <1>2, <1>3 DEF Leasing

(* A release that finds no admission at n and lowers the count, or finds it zero:
   either a holder fewer stands behind it, or n is marked as disturbed. *)
LEMMA LeasedReleased ==
  ASSUME TypeOK, NEW n \in Nodes, Leased(n), leases' = Released(n),
         InAdmission(n)' = InAdmission(n),
         UNCHANGED <<leaked, crowd>>, n \in dispatch => n \in dispatch',
         n \in stolen => n \in stolen',
         \/ /\ Holders(n)' = Holders(n)
            /\ leases[n] > 0 => n \in stolen'
         \/ \E r : r \in Holders(n) /\ Holders(n)' = Holders(n) \ {r}
  PROVE  Leased(n)'
<1> DEFINE h == Cardinality(Holders(n))
           g == Cardinality(Holders(n)')
           a == Cardinality(InAdmission(n))
<1>1. h \in Nat /\ a \in Nat /\ leases[n] \in Nat /\ leaked[n] \in Nat /\ crowd[n] \in Nat
  BY SetsFinite DEF TypeOK
<1>2. leases'[n] = IF n \in dispatch /\ leases[n] > 0 THEN leases[n] - 1 ELSE leases[n]
  BY DEF Released, TypeOK
<1>3. \/ g = h /\ (leases[n] > 0 => n \in stolen')
      \/ g = h - 1 /\ h > 0
  <2>1. CASE Holders(n)' = Holders(n) /\ (leases[n] > 0 => n \in stolen')
    <3>1. Cardinality(Holders(n)') = Cardinality(Holders(n)) BY <2>1
    <3>2. QED BY <2>1, <3>1
  <2>2. ASSUME NEW r, r \in Holders(n), Holders(n)' = Holders(n) \ {r}
        PROVE  g = h - 1 /\ h > 0
    <3>1. Cardinality(Holders(n) \ {r}) = h - 1
      BY <2>2, SetsFinite, FS_RemoveElement, Zenon
    <3>2. g = h - 1 BY <2>2, <3>1
    <3>3. h # 0 BY <2>2, SetsFinite, FS_EmptySet
    <3>4. QED BY <1>1, <3>2, <3>3
  <2>3. QED BY <2>1, <2>2
<1>4. /\ n \notin dispatch => leases[n] = 0 /\ InAdmission(n) = {}
      /\ leases[n] + a < MaxConcurrent + crowd[n]
      /\ a <= crowd[n]
      /\ leases[n] <= h + leaked[n]
      /\ n \notin stolen => leases[n] = h + leaked[n]
  BY DEF Leased
<1>5. leaked'[n] = leaked[n] /\ crowd'[n] = crowd[n] /\ Cardinality(InAdmission(n)') = a
  OBVIOUS
<1> HIDE DEF h, g, a
<1>6. n \notin dispatch' => leases'[n] = 0 /\ InAdmission(n)' = {}
  BY <1>1, <1>2, <1>4
<1>7. leases'[n] + a < MaxConcurrent + crowd[n]
  BY <1>1, <1>2, <1>4, MaxConcurrentAssumption
<1>8. leases'[n] <= g + leaked[n]
  BY <1>1, <1>2, <1>3, <1>4
<1>9. n \notin stolen' => leases'[n] = g + leaked[n]
  BY <1>1, <1>2, <1>3, <1>4
<1>10. QED BY <1>4, <1>5, <1>6, <1>7, <1>8, <1>9 DEF Leased, g

(* A release leaves the other nodes alone. *)
LEMMA LeasingReleased ==
  ASSUME TypeOK, Leasing, NEW n \in Nodes, Leased(n)', leases' = Released(n),
         \A m \in Nodes \ {n} : SameSets(m), UNCHANGED <<leaked, crowd>>,
         dispatch \subseteq dispatch', stolen \subseteq stolen'
  PROVE  Leasing'
<1>1. ASSUME NEW m \in Nodes \ {n} PROVE Leased(m)'
  <2>1. leases'[m] = leases[m] BY DEF Released, TypeOK
  <2>2. Leased(m) /\ SameSets(m) BY DEF Leasing
  <2>3. leaked'[m] = leaked[m] /\ crowd'[m] = crowd[m] OBVIOUS
  <2>4. QED BY <2>1, <2>2, <2>3, LeasedKept
<1>2. QED BY <1>1 DEF Leasing

(* A release with no request behind it. *)
LEMMA LeasingCredit ==
  ASSUME TypeOK, Leasing, \A m : SameSets(m), NEW n \in Nodes, Credit(n),
         UNCHANGED <<leaked, crowd>>, dispatch \subseteq dispatch'
  PROVE  Leasing'
<1>1. leases' = Released(n) /\ stolen \subseteq stolen' /\ (leases[n] > 0 => n \in stolen')
  BY DEF Credit
<1>2. Leased(n) /\ SameSets(n) BY DEF Leasing
<1>3. Leased(n)' BY <1>1, <1>2, LeasedReleased DEF SameSets
<1>4. QED BY <1>1, <1>3, LeasingReleased

(* A report gives back the lease of the request that makes it. *)
LEMMA LeasingGivenBack ==
  ASSUME TypeOK, Leasing,
         NEW r \in Requests, pc[r] \in HoldingAt, NEW s, s \notin HoldingAt \cup Loaded,
         pc' = [pc EXCEPT ![r] = s],
         NEW n \in Nodes, n = at[r], leases' = Released(n),
         UNCHANGED <<at, dispatch, leaked, crowd, stolen>>
  PROVE  Leasing'
<1>1. \A q \in Requests : pc'[q] = IF q = r THEN s ELSE pc[q] BY DEF TypeOK
<1>2. Holders(n)' = Holders(n) \ {r} /\ r \in Holders(n)
  BY <1>1 DEF Holders, HoldingAt
<1>3. \A m : InAdmission(m)' = InAdmission(m)
  BY <1>1 DEF InAdmission, Loaded, HoldingAt
<1>4. \A m \in Nodes \ {n} : SameSets(m)
  BY <1>1, <1>3 DEF Holders, HoldingAt, SameSets
<1>5. Leased(n) BY DEF Leasing
<1>7. Leased(n)' BY <1>2, <1>3, <1>5, LeasedReleased
<1>8. QED BY <1>4, <1>7, LeasingReleased

(* An admission that saw room adds to the crowd and passes the limit by less. *)
LEMMA LeasingLoad ==
  ASSUME TypeOK, Leasing, NEW r \in Requests, NEW n \in Nodes, NEW s \in Loaded, Load(r, n, s)
  PROVE  Leasing'
<1> DEFINE a == Cardinality(InAdmission(n))
<1>1. /\ pc[r] = "admit" /\ n \in dispatch /\ leases[n] < MaxConcurrent
      /\ crowd' = [crowd EXCEPT ![n] = IF crowd[n] > a THEN crowd[n] ELSE crowd[n] + 1]
      /\ UNCHANGED <<dispatch, leases, leaked, stolen>>
  BY DEF Load, pools
<1>2. \A q \in Requests : /\ pc'[q] = IF q = r THEN s ELSE pc[q]
                          /\ at'[q] = IF q = r THEN n ELSE at[q]
  BY DEF Load, TypeOK
<1>3. \A m : Holders(m)' = Holders(m)
  BY <1>1, <1>2 DEF Holders, Loaded
<1>4. InAdmission(n)' = InAdmission(n) \cup {r} /\ r \notin InAdmission(n)
  BY <1>1, <1>2 DEF InAdmission, Loaded
<1>5. \A m \in Nodes \ {n} : SameSets(m)
  BY <1>1, <1>2, <1>3 DEF InAdmission, Loaded, SameSets
<1>6. ASSUME NEW m \in Nodes \ {n} PROVE Leased(m)'
  <2>1. crowd'[m] = crowd[m] BY <1>1 DEF TypeOK
  <2>2. Leased(m) BY DEF Leasing
  <2>3. SameSets(m) BY <1>5
  <2>4. QED BY <1>1, <2>1, <2>2, <2>3, LeasedKept
<1>7. Leased(n)'
  <2>1. Cardinality(InAdmission(n)') = a + 1
    BY <1>4, SetsFinite, FS_AddElement
  <2>2. a \in Nat /\ leases[n] \in Nat /\ crowd[n] \in Nat BY SetsFinite DEF TypeOK
  <2>3. a <= crowd[n] BY DEF Leasing, Leased
  <2>4. crowd'[n] = IF crowd[n] > a THEN crowd[n] ELSE crowd[n] + 1
    BY <1>1 DEF TypeOK
  <2>5. leases'[n] = leases[n] BY <1>1
  <2> HIDE DEF a
  <2>6. leases'[n] + (a + 1) < MaxConcurrent + crowd'[n] /\ a + 1 <= crowd'[n]
    BY <1>1, <2>2, <2>3, <2>4, <2>5, MaxConcurrentAssumption
  <2>7. Leased(n) BY DEF Leasing
  <2>8. QED BY <1>1, <1>3, <2>1, <2>5, <2>6, <2>7 DEF Leased
<1>8. QED BY <1>6, <1>7 DEF Leasing

(* An admission at n ends: its lease has a holder, or is taken for nobody, or a
   budget refused it. *)
LEMMA LeasingAdmitted ==
  ASSUME TypeOK, Leasing, NEW r \in Requests, NEW n \in Nodes, n = at[r],
         Admit(r) \/ Diagnose(r) \/ Refuse(r)
  PROVE  Leasing'
<1> DEFINE a == Cardinality(InAdmission(n))
           b == Cardinality(InAdmission(n)')
           h == Cardinality(Holders(n))
           g == Cardinality(Holders(n)')
<1>1. /\ pc[r] \in Loaded /\ UNCHANGED <<at, dispatch, crowd, stolen>>
      /\ \A q \in Requests : pc'[q] = IF q = r THEN pc'[r] ELSE pc[q]
      /\ pc'[r] = IF Admit(r) THEN "enter" ELSE "admit"
  BY DEF Admit, Diagnose, Refuse, TypeOK, Loaded, pools, history
<1>2. InAdmission(n)' = InAdmission(n) \ {r} /\ r \in InAdmission(n)
  BY <1>1 DEF InAdmission, Loaded
<1>3. r \notin Holders(n) /\ Holders(n)' = IF Admit(r) THEN Holders(n) \cup {r} ELSE Holders(n)
  BY <1>1 DEF Holders, Loaded
<1>4. \A m \in Nodes \ {n} : SameSets(m)
  BY <1>1 DEF InAdmission, Holders, Loaded, SameSets
<1>5. b = a - 1
  BY <1>2, SetsFinite, FS_RemoveElement, Zenon
<1>6. g = IF Admit(r) THEN h + 1 ELSE h
  BY <1>3, SetsFinite, FS_AddElement
<1>7. a \in Nat /\ h \in Nat
      /\ leases[n] \in Nat /\ crowd[n] \in Nat /\ leaked[n] \in Nat
  BY SetsFinite DEF TypeOK
<1>8. \A m \in Nodes \ {n} : leases'[m] = leases[m] /\ leaked'[m] = leaked[m]
  BY DEF Admit, Diagnose, Refuse, TypeOK, pools, history
<1>9. \/ g = h + 1 /\ leases'[n] = leases[n] + 1 /\ leaked'[n] = leaked[n]
      \/ g = h /\ leases'[n] = leases[n] + 1 /\ leaked'[n] = leaked[n] + 1
      \/ g = h /\ leases'[n] = leases[n] /\ leaked'[n] = leaked[n]
  <2>1. CASE Admit(r) BY <1>6, <2>1 DEF Admit, TypeOK, history
  <2>2. CASE ~Admit(r) /\ Diagnose(r) BY <1>6, <2>2 DEF Diagnose, TypeOK
  <2>3. CASE ~Admit(r) /\ Refuse(r) BY <1>6, <2>3 DEF Refuse, TypeOK, pools, history
  <2>4. QED BY <2>1, <2>2, <2>3
<1>10. /\ n \notin dispatch => leases[n] = 0 /\ InAdmission(n) = {}
       /\ leases[n] + a < MaxConcurrent + crowd[n]
       /\ a <= crowd[n]
       /\ leases[n] <= h + leaked[n]
       /\ n \notin stolen => leases[n] = h + leaked[n]
  BY DEF Leasing, Leased
<1>11. n \in dispatch /\ crowd'[n] = crowd[n] BY <1>1, <1>2, <1>10
<1>12. ASSUME NEW m \in Nodes \ {n} PROVE Leased(m)'
  <2>1. Leased(m) BY DEF Leasing
  <2>2. SameSets(m) BY <1>4
  <2>3. QED BY <1>1, <1>8, <2>1, <2>2, LeasedKept
<1>13. Leased(n)'
  <2> HIDE DEF a, b, h, g
  <2>1. leases'[n] + b < MaxConcurrent + crowd[n]
    BY <1>5, <1>7, <1>9, <1>10, MaxConcurrentAssumption
  <2>2. b <= crowd[n] BY <1>5, <1>7, <1>10
  <2>3. leases'[n] <= g + leaked'[n] BY <1>7, <1>9, <1>10
  <2>4. n \notin stolen => leases'[n] = g + leaked'[n] BY <1>7, <1>9, <1>10
  <2>5. QED BY <1>1, <1>11, <2>1, <2>2, <2>3, <2>4 DEF Leased, b, g
<1>14. QED BY <1>12, <1>13 DEF Leasing

(* Every step preserves Leasing. *)
LEMMA LeasingStep == TypeOK /\ Leasing /\ [Next]_vars => Leasing'
<1> SUFFICES ASSUME TypeOK, Leasing, [Next]_vars PROVE Leasing'
  OBVIOUS
<1>0. \A r \in Requests : at[r] \in Nodes BY DEF TypeOK
<1>1. ASSUME NEW r \in Requests, RequestStep(r) PROVE Leasing'
  <2> USE DEF HoldingAt, Loaded, pools, history
  <2>1. CASE Start(r)
    <3>1. \A m : SameSets(m) BY <2>1, SameMembers DEF Start, TypeOK
    <3>2. QED BY <2>1, <3>1, LeasingKept DEF Start
  <2>2. CASE \E n \in Nodes, s \in Loaded : Load(r, n, s) BY <2>2, LeasingLoad
  <2>3. CASE Admit(r) \/ Diagnose(r) \/ Refuse(r) BY <1>0, <2>3, LeasingAdmitted
  <2>4. CASE AdmitNothing(r)
    <3>1. \A m : SameSets(m) BY <2>4, SameMembers DEF AdmitNothing, TypeOK
    <3>2. QED BY <2>4, <3>1, LeasingKept DEF AdmitNothing
  <2>5. CASE Enter(r)
    <3>1. \A m : SameSets(m) BY <2>5, SameMembers DEF Enter, TypeOK
    <3>2. QED BY <2>5, <3>1, LeasingKept DEF Enter
  <2>6. CASE Abandon(r)
    <3>1. \A m : SameSets(m) BY <2>6, SameMembers DEF Abandon, TypeOK
    <3>2. QED BY <2>6, <3>1, LeasingKept DEF Abandon
  <2>7. CASE ReportPlain(r)
    BY <1>0, <2>7, LeasingGivenBack DEF ReportPlain
  <2>8. CASE Report429(r)
    <3>1. \A m : SameSets(m) BY <2>8, SameMembers DEF Report429, TypeOK
    <3>2. QED BY <2>8, <3>1, LeasingKept DEF Report429
  <2>9. CASE Report429Releases(r)
    BY <1>0, <2>9, LeasingGivenBack DEF Report429Releases
  <2>10. CASE ReportError(r)
    BY <1>0, <2>10, LeasingGivenBack DEF ReportError
  <2>11. CASE ReportWithdraws(r)
    <3>1. \A m : SameSets(m) BY <2>11, SameMembers DEF ReportWithdraws, TypeOK
    <3>2. QED BY <1>0, <2>11, <3>1, LeasingWithdraw DEF ReportWithdraws
  <2>12. CASE ReportBuries(r)
    <3>1. \A m : SameSets(m) BY <2>12, SameMembers DEF ReportBuries, TypeOK
    <3>2. QED BY <2>12, <3>1, LeasingKept DEF ReportBuries
  <2>13. CASE \E p \in Probes : ReportSpawns(r, p)
    <3>1. \A m : SameSets(m) BY <2>13, SameMembers DEF ReportSpawns, TypeOK
    <3>2. QED BY <2>13, <3>1, LeasingKept DEF ReportSpawns
  <2>14. QED
    BY <1>1, <2>1, <2>2, <2>3, <2>4, <2>5, <2>6, <2>7, <2>8, <2>9, <2>10,
       <2>11, <2>12, <2>13 DEF RequestStep
<1>2. ASSUME UNCHANGED <<pc, at>> PROVE \A m : SameSets(m)
  BY <1>2, SameMembers
<1>3. ASSUME NEW p \in Probes, ProbeStep(p) PROVE Leasing'
  <2> USE DEF pools, history
  <2>1. CASE \E n \in Nodes : SpawnPeriodic(p, n)
    BY <1>2, <2>1, LeasingKept DEF SpawnPeriodic
  <2>2. CASE \E n \in Nodes : SpawnDead(p, n)
    BY <1>2, <2>2, LeasingKept DEF SpawnDead
  <2>3. CASE ProbeFails(p)
    BY <1>2, <2>3, LeasingKept DEF ProbeFails
  <2>4. CASE ProbeRecovers(p)
    BY <1>2, <2>4, LeasingKept DEF ProbeRecovers
  <2>5. CASE \E ok \in BOOLEAN : DeadProbeAnswers(p, ok)
    BY <1>2, <2>5, LeasingKept DEF DeadProbeAnswers
  <2>6. CASE DeadProbeRecovers(p)
    BY <1>2, <2>6, LeasingKept DEF DeadProbeRecovers
  <2>7. CASE DeadProbeUnlimits(p)
    BY <1>2, <2>7, LeasingKept DEF DeadProbeUnlimits
  <2>8. CASE ProbeRestores(p)
    BY <1>2, <2>8, LeasingKept DEF ProbeRestores, Rejoin
  <2>9. CASE ProbeCredits(p)
    <3>1. probe[p].node \in Nodes BY DEF TypeOK, ProbeTask
    <3>2. QED BY <1>2, <2>9, <3>1, LeasingCredit DEF ProbeCredits
  <2>10. QED
    BY <1>3, <2>1, <2>2, <2>3, <2>4, <2>5, <2>6, <2>7, <2>8, <2>9 DEF ProbeStep
<1>4. CASE AdminStep
  <2> USE DEF pools, history
  <2>0. admin.node \in Nodes BY DEF TypeOK, Call
  <2>1. CASE FuseAll BY <1>2, <2>1, LeasingKept DEF FuseAll
  <2>2. CASE UnfuseAll BY <1>2, <2>2, LeasingKept DEF UnfuseAll
  <2>3. CASE \E n \in Nodes : FuseNode(n)
    BY <1>2, <2>3, LeasingWithdraw DEF FuseNode
  <2>4. CASE FuseBuries BY <1>2, <2>4, LeasingKept DEF FuseBuries
  <2>5. CASE \E n \in Nodes : UnfuseNode(n)
    BY <1>2, <2>5, LeasingKept DEF UnfuseNode, Rejoin
  <2>6. CASE UnfuseRecovers BY <1>2, <2>6, LeasingKept DEF UnfuseRecovers
  <2>7. CASE \E n \in Nodes : AddNode(n)
    BY <1>2, <2>7, LeasingKept DEF AddNode, Rejoin
  <2>8. CASE AddRegisters BY <1>2, <2>8, LeasingKept DEF AddRegisters
  <2>9. CASE \E n \in Nodes : RemoveNode(n)
    BY <1>2, <2>9, LeasingWithdraw DEF RemoveNode
  <2>10. CASE RemoveUnlimits BY <1>2, <2>10, LeasingKept DEF RemoveUnlimits
  <2>11. CASE RemoveUndead BY <1>2, <2>11, LeasingKept DEF RemoveUndead
  <2>12. CASE RemoveForgets BY <1>2, <2>12, LeasingKept DEF RemoveForgets
  <2>13. CASE \E n \in Nodes : RecoverNode(n)
    BY <1>2, <2>13, LeasingKept DEF RecoverNode
  <2>14. CASE RecoverUnlimits BY <1>2, <2>14, LeasingKept DEF RecoverUnlimits
  <2>15. CASE RecoverFused
    BY <1>2, <2>0, <2>15, LeasingWithdraw DEF RecoverFused
  <2>16. CASE RecoverRejoins
    BY <1>2, <2>16, LeasingKept DEF RecoverRejoins, Rejoin
  <2>17. CASE RecoverCredits
    BY <1>2, <2>0, <2>17, LeasingCredit DEF RecoverCredits
  <2>18. QED
    BY <1>4, <2>1, <2>2, <2>3, <2>4, <2>5, <2>6, <2>7, <2>8, <2>9, <2>10,
       <2>11, <2>12, <2>13, <2>14, <2>15, <2>16, <2>17 DEF AdminStep
<1>5. CASE UNCHANGED vars
  <2>1. UNCHANGED <<pc, at, leases, leaked, crowd, stolen, dispatch>> BY <1>5 DEF vars
  <2>2. QED BY <1>2, <2>1, LeasingKept
<1>6. QED BY <1>1, <1>3, <1>4, <1>5 DEF Next

(* Nothing is leased, held or being admitted at the start. *)
LEMMA LeasingInit == Init => Leasing
<1> SUFFICES ASSUME Init, NEW n \in Nodes PROVE Leased(n)
  BY DEF Leasing
<1>1. Holders(n) = {} /\ InAdmission(n) = {} BY DEF Init, Holders, InAdmission, Loaded
<1>2. Cardinality(Holders(n)) = 0 /\ Cardinality(InAdmission(n)) = 0
  BY <1>1, FS_EmptySet
<1>3. leases[n] = 0 /\ leaked[n] = 0 /\ crowd[n] = 1 BY DEF Init
<1>4. QED BY <1>1, <1>2, <1>3, MaxConcurrentAssumption DEF Leased

(* Types and lease counts, together, hold in every state. *)
THEOREM LeaseInvariant == Spec => []LeaseInv
<1>1. LeaseInv <=> TypeOK /\ Leasing
  BY DEF LeaseInv, Leasing, Leased, Crowded, LeasesCovered, ExactLeases
<1>2. QED
  BY <1>1, TypeCorrect, LeasingInit, LeasingStep, PTL DEF Spec

(* However admissions, reports, probes, fuse sweeps and node changes interleave,
   every counted lease of a node has an admitted request of its own behind it,
   or a refused scan's diagnostics took it for nobody: nothing else leaks
   capacity. *)
THEOREM LeasesAreCovered == Spec => []LeasesCovered
<1>1. LeaseInv => LeasesCovered BY DEF LeaseInv
<1>2. QED BY <1>1, LeaseInvariant, PTL

(* A node whose count no recovery or removal disturbed passes its limit by fewer
   requests and leaked leases than there were admissions between the load of its
   count and the increment at one time. *)
THEOREM CapacityIsHonoured == Spec => []CapacityHonoured
<1>1. LeaseInv => CapacityHonoured
  <2> SUFFICES ASSUME LeaseInv, NEW n \in Nodes \ stolen
               PROVE  Cardinality(Holders(n)) + leaked[n] < MaxConcurrent + crowd[n]
    BY DEF CapacityHonoured
  <2>1. leases[n] = Cardinality(Holders(n)) + leaked[n] BY DEF LeaseInv, ExactLeases
  <2>2. leases[n] + Cardinality(InAdmission(n)) < MaxConcurrent + crowd[n]
    BY DEF LeaseInv, Crowded
  <2>3. leases[n] \in Nat /\ crowd[n] \in Nat /\ Cardinality(InAdmission(n)) \in Nat
    BY SetsFinite DEF LeaseInv, TypeOK
  <2>4. QED BY <2>1, <2>2, <2>3, MaxConcurrentAssumption
<1>2. QED BY <1>1, LeaseInvariant, PTL

-----------------------------------------------------------------------------
(* Where a node is *)

(* A node that nothing overlapped on is in one of the pools, or one operation
   is on its way with it. *)
Somewhere(n) == n \in dispatch \/ n \in ratelimited \/ IsDead(n)
Reports(r, n) == at[r] = n /\ pc[r] \in Reporting
Probing(p, n) == probe[p].kind # "none" /\ probe[p].node = n
Underway(n) ==
  \/ \E r \in Requests : Reports(r, n)
  \/ \E p \in Probes : Probing(p, n)
  \/ n \in admin.todo

OneAtATime(n) ==
  /\ \A r, q \in Requests : Reports(r, n) /\ Reports(q, n) => r = q
  /\ \A p, q \in Probes : Probing(p, n) /\ Probing(q, n) => p = q
  /\ \A r \in Requests, p \in Probes : ~(Reports(r, n) /\ Probing(p, n))
  /\ n \in admin.todo =>
       /\ \A r \in Requests : ~Reports(r, n)
       /\ \A p \in Probes : ~Probing(p, n)

(* What an operation relies on while it is half done. *)
Limited == {"release429", "withdraw429", "spawn"}
Halfway(n) ==
  /\ \A r \in Requests : at[r] = n /\ pc[r] \in Limited => n \in ratelimited
  /\ \A p \in Probes : Probing(p, n) =>
       /\ probe[p].step = "running" =>
            IF probe[p].kind = "dead" THEN IsDead(n) ELSE n \in ratelimited
       /\ probe[p].step = "credit" => n \in dispatch
  /\ n \in admin.todo =>
       /\ admin.op = "unfuse" => IsDead(n)
       /\ \/ admin.op = "add"
          \/ admin.op = "unfuse" /\ admin.step = "undead" /\ admin.node = n
          \/ admin.op = "recover" /\ admin.step = "credit" /\ admin.node = n
          => n \in dispatch
       /\ admin.op = "remove" =>
            n \notin dispatch /\ \A r \in Requests : ~(at[r] = n /\ pc[r] = "enter")

(* Registered, or about to be. *)
Known(n) == n \in nodes \/ \E r \in Requests : at[r] = n /\ pc[r] = "enter"

Kept(n) ==
  /\ OneAtATime(n)
  /\ Halfway(n)
  /\ Known(n) => Underway(n) \/ Somewhere(n)

(* An idle probe task is at the start, and the administrator is at a node that is
   still to be visited when it has begun with it. *)
Idle ==
  /\ \A p \in Probes : probe[p].kind = "none" => probe[p].step = "running"
  /\ admin.op = "none" => admin.todo = {}
  /\ admin.step # "next" => admin.node \in admin.todo

(* The inductive invariant behind KeptInSomePool. *)
KeptInv ==
  /\ Idle
  /\ \A n \in Nodes \ excused : Kept(n)

(* What a request does to some node keeps every other node, and its own, where it
   is: a report of a limit or an error leads into a pool of its own. *)
LEMMA KeptByRequests ==
  ASSUME TypeOK, NEW n \in Nodes, Kept(n), NEW r \in Requests, RequestStep(r),
         n \notin excused', n \notin dispatch => InAdmission(n) = {}
  PROVE  Kept(n)'
<1> USE DEF TypeOK, PC, Loaded, pools, history, Kept, OneAtATime, Halfway, Known,
            Underway, Somewhere, Reports, Probing, IsDead, Reporting, Limited
<1>1. CASE Start(r) BY <1>1 DEF Start
<1>2. CASE \E m \in Nodes, s \in Loaded : Load(r, m, s) BY <1>2 DEF Load
<1>3. CASE Admit(r)
  <2>1. at[r] = n => n \in dispatch BY <1>3 DEF Admit, InAdmission
  <2>2. QED BY <1>3, <2>1 DEF Admit
<1>4. CASE Diagnose(r) BY <1>4 DEF Diagnose
<1>5. CASE Refuse(r) BY <1>5 DEF Refuse
<1>6. CASE AdmitNothing(r) BY <1>6 DEF AdmitNothing
<1>7. CASE Enter(r) BY <1>7 DEF Enter
<1>8. CASE Abandon(r) BY <1>8 DEF Abandon
<1>9. CASE ReportPlain(r) BY <1>9 DEF ReportPlain
<1>10. CASE Report429(r) BY <1>10 DEF Report429, Begins, Busy
<1>11. CASE Report429Releases(r) BY <1>11 DEF Report429Releases
<1>12. CASE ReportError(r) BY <1>12 DEF ReportError, Begins, Busy
<1>13. CASE ReportWithdraws(r) BY <1>13 DEF ReportWithdraws, Withdraw
<1>14. CASE ReportBuries(r) BY <1>14, AbsentAssumption DEF ReportBuries, Bury
<1>15. CASE \E p \in Probes : ReportSpawns(r, p)
  BY <1>15 DEF ReportSpawns, Task, ProbeTask, Kinds, Steps
<1>16. QED
  BY <1>1, <1>2, <1>3, <1>4, <1>5, <1>6, <1>7, <1>8, <1>9, <1>10, <1>11, <1>12,
     <1>13, <1>14, <1>15 DEF RequestStep

(* A probe that takes its node out of the parking pools is on its way to put it
   back into the rotation. *)
LEMMA KeptByRestoring ==
  ASSUME TypeOK, NEW n \in Nodes, Kept(n), NEW s \in Probes, Probing(s, n),
         NEW t \in {"unlimit", "restore"}, GoTo(s, t),
         UNCHANGED <<pc, at, admin>>, n \in dispatch <=> n \in dispatch'
  PROVE  Kept(n)'
<1> USE DEF TypeOK, ProbeTask, Steps
<1>1. probe' = [probe EXCEPT ![s].step = t] BY DEF GoTo
<1>2. \A q \in Probes : Probing(q, n)' <=> Probing(q, n) BY <1>1 DEF Probing
<1>3. OneAtATime(n)' BY <1>2 DEF Kept, OneAtATime, Reports
<1>4. Halfway(n)'
  BY <1>1, <1>2 DEF Kept, OneAtATime, Halfway, Reports, Probing, Reporting, Limited
<1>5. Underway(n)' BY <1>2 DEF Underway
<1>6. QED BY <1>3, <1>4, <1>5 DEF Kept

(* A probe that is about another node keeps this one where it is. *)
LEMMA KeptByOthers ==
  ASSUME TypeOK, NEW n \in Nodes, Kept(n), NEW s \in Probes,
         probe[s].node # n, probe'[s].node # n,
         \A q \in Probes \ {s} : probe'[q] = probe[q],
         n \in dispatch' <=> n \in dispatch, n \in ratelimited' <=> n \in ratelimited,
         dead'[n] = dead[n], UNCHANGED <<pc, at, admin, nodes>>
  PROVE  Kept(n)'
<1>1. \A q \in Probes : Probing(q, n)' <=> Probing(q, n)
  BY DEF Probing
<1>2. \A q \in Probes : Probing(q, n) => probe'[q] = probe[q]
  BY DEF Probing
<1>3. \A r : Reports(r, n)' <=> Reports(r, n)
  BY DEF Reports
<1>4. /\ OneAtATime(n)
      /\ Halfway(n)
      /\ Known(n) => Underway(n) \/ Somewhere(n)
  BY DEF Kept
<1>5. OneAtATime(n)' BY <1>1, <1>3, <1>4 DEF OneAtATime
<1>6. IsDead(n)' <=> IsDead(n) BY DEF IsDead
<1>7. Halfway(n)' BY <1>1, <1>2, <1>4, <1>6 DEF Halfway
<1>8. Known(n)' <=> Known(n) BY DEF Known
<1>9. Underway(n)' <=> Underway(n) BY <1>1, <1>3 DEF Underway
<1>10. Somewhere(n)' <=> Somewhere(n) BY <1>6 DEF Somewhere
<1>11. QED BY <1>4, <1>5, <1>7, <1>8, <1>9, <1>10 DEF Kept

(* A probe that recovers a node of its own keeps every node: it moves on to put
   the node back, or it ends and the node is excused. *)
LEMMA KeptByRecovering ==
  ASSUME TypeOK, NEW n \in Nodes, Kept(n), NEW s \in Probes, n \notin excused',
         probe[s].node # n => dead'[n] = dead[n] /\ (n \in ratelimited' <=> n \in ratelimited),
         UNCHANGED <<pc, at, admin, nodes, dispatch>>,
         probe[s].kind # "none",
         \/ EndProbe(s) /\ excused' = excused \cup {probe[s].node}
         \/ \E t \in {"unlimit", "restore"} : GoTo(s, t)
  PROVE  Kept(n)'
<1>1. probe \in [Probes -> ProbeTask] BY DEF TypeOK
<1>2. CASE probe[s].node = n
  <2>1. \E t \in {"unlimit", "restore"} : GoTo(s, t) BY <1>2
  <2>2. Probing(s, n) BY <1>2 DEF Probing
  <2>3. n \in dispatch <=> n \in dispatch' OBVIOUS
  <2>4. QED BY <2>1, <2>2, <2>3, KeptByRestoring
<1>3. CASE probe[s].node # n
  <2>1. probe'[s].node = probe[s].node /\ \A q \in Probes \ {s} : probe'[q] = probe[q]
    BY <1>1 DEF EndProbe, GoTo, Task, ProbeTask
  <2>2. QED BY <1>3, <2>1, KeptByOthers
<1>4. QED BY <1>2, <1>3

(* What a probe does keeps every node where it is. *)
LEMMA KeptByProbes ==
  ASSUME TypeOK, NEW n \in Nodes, Kept(n), NEW s \in Probes, ProbeStep(s),
         n \notin excused', probe[s].kind = "none" => probe[s].step = "running"
  PROVE  Kept(n)'
<1>1. CASE ProbeRecovers(s)
  <2>1. probe[s].kind # "none" /\ UNCHANGED <<pc, at, admin, nodes, dispatch, dead>>
    BY <1>1 DEF ProbeRecovers
  <2>2. probe[s].node # n => (n \in ratelimited' <=> n \in ratelimited)
    BY <1>1 DEF ProbeRecovers
  <2>3. QED BY <1>1, <2>1, <2>2, KeptByRecovering DEF ProbeRecovers
<1>2. CASE DeadProbeRecovers(s)
  <2>1. probe[s].kind # "none" /\ UNCHANGED <<pc, at, admin, nodes, dispatch, ratelimited>>
    BY <1>2 DEF DeadProbeRecovers, history
  <2>2. probe[s].node # n => dead'[n] = dead[n]
    BY <1>2 DEF DeadProbeRecovers, Undead, TypeOK
  <2>3. QED BY <1>2, <2>1, <2>2, KeptByRecovering DEF DeadProbeRecovers
<1>3. CASE DeadProbeUnlimits(s)
  <2>1. probe[s].kind # "none" /\ UNCHANGED <<pc, at, admin, nodes, dispatch, dead>>
    BY <1>3 DEF DeadProbeUnlimits
  <2>2. probe[s].node # n => (n \in ratelimited' <=> n \in ratelimited)
    BY <1>3 DEF DeadProbeUnlimits
  <2>3. QED BY <1>3, <2>1, <2>2, KeptByRecovering DEF DeadProbeUnlimits
<1> USE DEF TypeOK, ProbeTask, Kinds, Steps, pools, Kept, OneAtATime, Halfway,
            Known, Underway, Somewhere, Reports, Probing, IsDead, Reporting, Limited
<1>4. CASE \E m \in Nodes : SpawnPeriodic(s, m)
  BY <1>4 DEF SpawnPeriodic, Task, Begins, Busy
<1>5. CASE \E m \in Nodes : SpawnDead(s, m)
  BY <1>5 DEF SpawnDead, Task, Begins, Busy
<1>6. CASE ProbeFails(s) BY <1>6 DEF ProbeFails, EndProbe, Task
<1>7. ASSUME NEW ok \in BOOLEAN, DeadProbeAnswers(s, ok) PROVE Kept(n)'
  <2>1. UNCHANGED <<pc, at, admin, nodes, dispatch, ratelimited>>
    BY <1>7 DEF DeadProbeAnswers
  <2>2. EndProbe(s) \/ GoTo(s, "undead") BY <1>7 DEF DeadProbeAnswers
  <2>3. /\ IsDead(n)' <=> IsDead(n)
        /\ probe[s].node # n => dead'[n] = dead[n]
    BY <1>7, AbsentAssumption DEF DeadProbeAnswers
  <2>4. probe[s].kind = "dead" /\ probe[s].step = "running" BY <1>7 DEF DeadProbeAnswers
  <2>5. CASE probe[s].node # n
    <3>1. probe'[s].node = probe[s].node /\ \A q \in Probes \ {s} : probe'[q] = probe[q]
      BY <2>2 DEF EndProbe, GoTo, Task
    <3>2. QED BY <2>1, <2>3, <2>5, <3>1, KeptByOthers
  <2>6. CASE probe[s].node = n /\ GoTo(s, "undead")
    BY <2>1, <2>3, <2>4, <2>6 DEF GoTo
  <2>7. CASE probe[s].node = n /\ EndProbe(s)
    BY <2>1, <2>3, <2>4, <2>7 DEF EndProbe, Task
  <2>8. QED BY <2>2, <2>5, <2>6, <2>7
<1>8. CASE ProbeRestores(s) BY <1>8 DEF ProbeRestores, Rejoin, GoTo, history
<1>9. CASE ProbeCredits(s) BY <1>9 DEF ProbeCredits, EndProbe, Task
<1>10. QED
  BY <1>1, <1>2, <1>3, <1>4, <1>5, <1>6, <1>7, <1>8, <1>9 DEF ProbeStep

(* So does what the administrator does: a sweep or a call that meets another
   operation on a node excuses the node. *)
LEMMA KeptByAdmin ==
  ASSUME TypeOK, Idle, NEW n \in Nodes, Kept(n), AdminStep, n \notin excused',
         n \notin dispatch => InAdmission(n) = {}
  PROVE  Kept(n)'
<1> USE DEF TypeOK, Call, AdminCall, AdminAt, Visiting, AdminGoes, Sweeping, Visited, Calls,
            pools, history, Idle, Kept, OneAtATime, Halfway, Known, Underway,
            Somewhere, Reports, Probing, IsDead, Reporting, Limited
<1>1. CASE FuseAll BY <1>1 DEF FuseAll, Sweeps, Busy
<1>2. CASE UnfuseAll BY <1>2 DEF UnfuseAll, Sweeps, Busy
<1>3. CASE \E m \in Nodes : FuseNode(m) BY <1>3 DEF FuseNode, Withdraw
<1>4. CASE FuseBuries BY <1>4, AbsentAssumption DEF FuseBuries, Bury
<1>5. ASSUME NEW m \in Nodes, UnfuseNode(m) PROVE Kept(n)'
  <2>1. CASE m \notin nodes BY <1>5, <2>1 DEF UnfuseNode
  <2>2. CASE m \in nodes /\ m = n BY <1>5, <2>2 DEF UnfuseNode, Rejoin
  <2>3. CASE m \in nodes /\ m # n BY <1>5, <2>3 DEF UnfuseNode, Rejoin
  <2>4. QED BY <2>1, <2>2, <2>3
<1>6. CASE UnfuseRecovers BY <1>6 DEF UnfuseRecovers, Undead
<1>7. CASE \E m \in Nodes : AddNode(m) BY <1>7 DEF AddNode, Rejoin, Begins, Busy
<1>8. CASE AddRegisters BY <1>8 DEF AddRegisters
<1>9. CASE \E m \in Nodes : RemoveNode(m)
  BY <1>9 DEF RemoveNode, Withdraw, Begins, Busy
<1>10. CASE RemoveUnlimits BY <1>10 DEF RemoveUnlimits
<1>11. CASE RemoveUndead BY <1>11 DEF RemoveUndead, Undead
<1>12. CASE RemoveForgets BY <1>12 DEF RemoveForgets
<1>13. CASE \E m \in Nodes : RecoverNode(m)
  BY <1>13 DEF RecoverNode, Undead, Begins, Busy
<1>14. CASE RecoverUnlimits BY <1>14 DEF RecoverUnlimits
<1>15. CASE RecoverFused BY <1>15 DEF RecoverFused, Withdraw
<1>16. CASE RecoverRejoins
  <2>1. CASE admin.node = n BY <1>16, <2>1 DEF RecoverRejoins, Rejoin
  <2>2. CASE admin.node # n BY <1>16, <2>2 DEF RecoverRejoins, Rejoin
  <2>3. QED BY <2>1, <2>2
<1>17. CASE RecoverCredits BY <1>17 DEF RecoverCredits
<1>18. QED
  BY <1>1, <1>2, <1>3, <1>4, <1>5, <1>6, <1>7, <1>8, <1>9, <1>10, <1>11,
     <1>12, <1>13, <1>14, <1>15, <1>16, <1>17 DEF AdminStep

(* Idle tasks stay so until they are started. *)
LEMMA IdleStep == TypeOK /\ Idle /\ [Next]_vars => Idle'
<1> SUFFICES ASSUME TypeOK, Idle, [Next]_vars PROVE Idle'
  OBVIOUS
<1> USE DEF TypeOK, ProbeTask, Idle, history
<1>1. ASSUME NEW r \in Requests, RequestStep(r) PROVE Idle'
  BY <1>1 DEF RequestStep, Start, Load, Admit, Diagnose, Refuse, AdmitNothing, Enter,
     Abandon, ReportPlain, Report429, Report429Releases, ReportError, ReportWithdraws,
     ReportBuries, ReportSpawns, Task
<1>2. ASSUME NEW s \in Probes, ProbeStep(s) PROVE Idle'
  BY <1>2 DEF ProbeStep, SpawnPeriodic, SpawnDead, ProbeFails, ProbeRecovers,
     DeadProbeAnswers, DeadProbeRecovers, DeadProbeUnlimits, ProbeRestores,
     ProbeCredits, EndProbe, GoTo, Task
<1>3. CASE AdminStep
  <2>1. UNCHANGED probe
    BY <1>3 DEF AdminStep, FuseAll, FuseNode, FuseBuries, UnfuseAll, UnfuseNode,
       UnfuseRecovers, AddNode, AddRegisters, RemoveNode,
       RemoveUnlimits, RemoveUndead, RemoveForgets, RecoverNode, RecoverUnlimits,
       RecoverFused, RecoverRejoins, RecoverCredits
  <2>2. \/ \E op, ids : op \in {"fuse", "unfuse"} /\ Sweeping(op, ids)
        \/ \E m : Visited(m)
        \/ \E m, t : m \in admin.todo /\ Visiting(m, t) /\ admin.op # "none"
        \/ \E m, op, t : op # "none" /\ Calls(op, m, t)
        \/ \E t : AdminGoes(t) /\ admin.step # "next" /\ admin.op # "none"
    BY <1>3 DEF AdminStep, AdminAt, Sweeps, FuseAll, FuseNode, FuseBuries, UnfuseAll,
       UnfuseNode, UnfuseRecovers, AddNode, AddRegisters, RemoveNode,
       RemoveUnlimits, RemoveUndead, RemoveForgets, RecoverNode, RecoverUnlimits,
       RecoverFused, RecoverRejoins, RecoverCredits
  <2> DEFINE Settled == /\ admin'.op = "none" => admin'.todo = {}
                        /\ admin'.step # "next" => admin'.node \in admin'.todo
  <2>3. ASSUME NEW op \in {"fuse", "unfuse"}, NEW ids, Sweeping(op, ids) PROVE Settled
    BY <2>3 DEF Sweeping
  <2>4. ASSUME NEW m, Visited(m) PROVE Settled
    BY <2>4 DEF Visited, Sweeping
  <2>5. ASSUME NEW m, NEW t, m \in admin.todo, Visiting(m, t), admin.op # "none" PROVE Settled
    BY <2>5 DEF Visiting, Call
  <2>6. ASSUME NEW m, NEW op, NEW t, op # "none", Calls(op, m, t) PROVE Settled
    BY <2>6 DEF Calls
  <2>7. ASSUME NEW t, AdminGoes(t), admin.step # "next", admin.op # "none" PROVE Settled
    BY <2>7 DEF AdminGoes, Call
  <2>8. Settled BY <2>2, <2>3, <2>4, <2>5, <2>6, <2>7
  <2>9. QED BY <2>1, <2>8
<1>4. CASE UNCHANGED vars BY <1>4 DEF vars
<1>5. QED BY <1>1, <1>2, <1>3, <1>4 DEF Next

(* No step forgives a node that it has excused. *)
LEMMA ExcusedGrows == [Next]_vars => excused \subseteq excused'
BY DEF Next, vars, history, RequestStep, Start, Load, Admit, Diagnose, Refuse,
   AdmitNothing, Enter, Abandon, ReportPlain, Report429, Report429Releases,
   ReportError, ReportWithdraws, ReportBuries, ReportSpawns, ProbeStep,
   SpawnPeriodic, SpawnDead, ProbeFails, ProbeRecovers, DeadProbeAnswers,
   DeadProbeRecovers, DeadProbeUnlimits, ProbeRestores, ProbeCredits, AdminStep,
   Sweeps, FuseAll, FuseNode, FuseBuries, UnfuseAll, UnfuseNode, UnfuseRecovers,
   AddNode, AddRegisters, RemoveNode, RemoveUnlimits, RemoveUndead,
   RemoveForgets, RecoverNode, RecoverUnlimits, RecoverFused, RecoverRejoins,
   RecoverCredits, Begins

(* Every step preserves KeptInv; that an admission finds the node where it loaded
   the count is LeaseInv's. *)
LEMMA KeptStep == TypeOK /\ Leasing /\ KeptInv /\ [Next]_vars => KeptInv'
<1> SUFFICES ASSUME TypeOK, Leasing, KeptInv, [Next]_vars PROVE KeptInv'
  OBVIOUS
<1>1. ASSUME NEW n \in Nodes, n \notin excused' PROVE Kept(n)'
  <2>1. n \notin excused BY <1>1, ExcusedGrows
  <2>2. Kept(n) BY <2>1 DEF KeptInv
  <2>0. n \notin dispatch => InAdmission(n) = {} BY DEF Leasing, Leased
  <2>3. CASE \E r \in Requests : RequestStep(r)
    BY <1>1, <2>0, <2>2, <2>3, KeptByRequests
  <2>4. CASE \E s \in Probes : ProbeStep(s)
    BY <1>1, <2>2, <2>4, KeptByProbes DEF KeptInv, Idle
  <2>5. CASE AdminStep BY <1>1, <2>0, <2>2, <2>5, KeptByAdmin DEF KeptInv
  <2>6. CASE UNCHANGED vars
    BY <2>2, <2>6 DEF vars, Kept, OneAtATime, Halfway, Known, Underway, Somewhere,
       Reports, Probing, IsDead
  <2>7. QED BY <2>3, <2>4, <2>5, <2>6 DEF Next
<1>2. QED BY <1>1, IdleStep DEF KeptInv

(* At the start every node is in the rotation and nothing is under way. *)
LEMMA KeptInit == Init => KeptInv
<1> SUFFICES ASSUME Init PROVE KeptInv
  OBVIOUS
<1>1. Idle BY DEF Init, Idle
<1>2. ASSUME NEW n \in Nodes PROVE Kept(n)
  <2>1. \A r \in Requests : pc[r] = "idle" BY DEF Init
  <2>2. \A p \in Probes : probe[p].kind = "none" BY DEF Init
  <2>3. admin.todo = {} /\ admin.op = "none" BY DEF Init
  <2>4. Somewhere(n) BY DEF Init, Somewhere
  <2>5. OneAtATime(n) BY <2>1, <2>2, <2>3 DEF OneAtATime, Reports, Probing, Reporting
  <2>6. Halfway(n) BY <2>1, <2>2, <2>3 DEF Halfway, Probing, Limited
  <2>7. QED BY <2>4, <2>5, <2>6 DEF Kept
<1>3. QED BY <1>1, <1>2 DEF KeptInv

(* For any nodes, requests and probes: no report, probe, sweep or administrator's
   call by itself loses a registered node from the pools. *)
THEOREM NoOperationLosesANode == Spec => []KeptInSomePool
<1>1. TypeOK /\ KeptInv => KeptInSomePool
  <2> SUFFICES ASSUME TypeOK, KeptInv, NEW n \in nodes \ excused
               PROVE  Busy(n) \/ n \in dispatch \/ n \in ratelimited \/ IsDead(n)
    BY DEF KeptInSomePool
  <2>1. Underway(n) \/ Somewhere(n) BY DEF TypeOK, KeptInv, Kept, Known
  <2>2. QED BY <2>1 DEF Underway, Somewhere, Reports, Probing, Busy
<1>2. QED BY <1>1, TypeCorrect, LeasingInit, LeasingStep, KeptInit, KeptStep, PTL DEF Spec

-----------------------------------------------------------------------------
(* The parts *)

(* Next to the others each part behaves as it does on its own, so that what is
   proved of its specification holds in Parts. *)
THEOREM PartsKeepApart == PartsSpec => Spec /\ D!Spec /\ P!Spec /\ U!Spec /\ G!Spec
<1>1. PartsInit => Init /\ D!Init /\ P!Init /\ U!Init /\ G!Init BY DEF PartsInit
<1> DEFINE all == <<part, vars, delivery, pins, reader, relay>>
<1>2. [PartsNext]_all => [Next]_vars
  BY DEF PartsNext, Still, all
<1>3. [PartsNext]_all => [D!Next]_(D!vars)
  BY DEF PartsNext, Still, all, delivery, D!vars, D!collectorVars
<1>4. [PartsNext]_all => [P!Next]_(P!vars)
  BY DEF PartsNext, Still, all, pins, P!vars
<1>5. [PartsNext]_all => [U!Next]_(U!vars)
  BY DEF PartsNext, Still, all, reader, U!vars
<1>6. [PartsNext]_all => [G!Next]_(G!vars)
  BY DEF PartsNext, Still, all, relay, G!vars
<1>7. QED
  BY <1>1, <1>2, <1>3, <1>4, <1>5, <1>6, PTL
  DEF PartsSpec, Spec, D!Spec, P!Spec, U!Spec, G!Spec

-----------------------------------------------------------------------------
(* Session pins: types *)

LEMMA PinsTypingStep == P!TypeOK /\ [P!Next]_P!vars => P!TypeOK'
<1> SUFFICES ASSUME P!TypeOK, [P!Next]_P!vars PROVE P!TypeOK'
  OBVIOUS
<1> USE DEF P!TypeOK, P!Pin
<1>1. ASSUME NEW t \in Callers, NEW s \in P!Steps, P!GoTo(t, s) PROVE step' \in [Callers -> P!Steps]
  BY <1>1 DEF P!GoTo
<1>2. ASSUME NEW t \in Callers, NEW n \in P!Pin, P!Takes(t, n) PROVE node' \in [Callers -> P!Pin]
  BY <1>2 DEF P!Takes
<1>3. ASSUME NEW t \in Callers, NEW pin \in P!Pin, P!Follow(t, pin)
      PROVE  step' \in [Callers -> P!Steps] /\ node' \in [Callers -> P!Pin]
  BY <1>1, <1>2, <1>3 DEF P!Follow, P!Steps
<1>4. ASSUME NEW t \in Callers, P!Lookup(t) PROVE P!TypeOK'
  <2>1. step' \in [Callers -> P!Steps] /\ node' \in [Callers -> P!Pin]
    BY <1>1, <1>3, <1>4 DEF P!Lookup, P!Steps
  <2>. QED
    BY <1>4, <2>1 DEF P!Lookup
<1>5. ASSUME NEW t \in Callers, P!LookupMemory(t) PROVE P!TypeOK'
  <2>1. memory[Home[t]] \in P!Pin
    BY PartsAssumption DEF P!PinsAssumption
  <2>2. step' \in [Callers -> P!Steps] /\ node' \in [Callers -> P!Pin]
    BY <1>3, <1>5, <2>1 DEF P!LookupMemory
  <2>. QED
    BY <1>5, <2>2 DEF P!LookupMemory
<1>6. ASSUME NEW t \in Callers, NEW n \in PinNodes, P!Record(t, n) PROVE P!TypeOK'
  <2>1. node' \in [Callers -> P!Pin]
    BY <1>2, <1>6 DEF P!Record
  <2>2. step' \in [Callers -> P!Steps]
    BY <1>1, <1>6 DEF P!Record, P!Steps
  <2>. QED
    BY <1>6, <2>1, <2>2 DEF P!Record
<1>7. ASSUME NEW t \in Callers, P!Store(t) PROVE P!TypeOK'
  <2>1. step' \in [Callers -> P!Steps]
    BY <1>1, <1>7 DEF P!Store, P!Steps
  <2>2. memory' \in [Instances -> P!Pin]
    BY <1>7 DEF P!Store
  <2>. QED
    BY <1>7, <2>1, <2>2 DEF P!Store
<1>8. ASSUME NEW t \in Callers, P!Succeed(t) \/ P!Clear(t) PROVE P!TypeOK'
  <2>1. node' \in [Callers -> P!Pin]
    BY <1>2, <1>8 DEF P!Succeed, P!Clear
  <2>2. step' \in [Callers -> P!Steps]
    BY <1>1, <1>8 DEF P!Succeed, P!Clear, P!Steps
  <2>. QED
    BY <1>8, <2>1, <2>2 DEF P!Succeed, P!Clear
<1>9. ASSUME NEW t \in Callers, P!Forget(t) PROVE P!TypeOK'
  <2>1. step' \in [Callers -> P!Steps]
    BY <1>1, <1>9 DEF P!Forget, P!Steps
  <2>2. memory' \in [Instances -> P!Pin]
    BY <1>9 DEF P!Forget
  <2>3. Home[t] \in Instances
    BY PartsAssumption DEF P!PinsAssumption
  <2>. QED
    BY <1>9, <2>1, <2>2, <2>3 DEF P!Forget
<1>10. CASE P!Expire \/ P!Outage \/ UNCHANGED P!vars
  BY <1>10 DEF P!Expire, P!Outage, P!vars
<1>. QED
  BY <1>4, <1>5, <1>6, <1>7, <1>8, <1>9, <1>10 DEF P!Next, P!Task

\* The pins are nodes, whichever store they come from.
LEMMA PinsTyping == P!Spec => []P!TypeOK
<1>1. P!Init => P!TypeOK
  BY DEF P!Init, P!TypeOK, P!Pin, P!Steps
<1>. QED
  BY <1>1, PinsTypingStep, PTL DEF P!Spec

-----------------------------------------------------------------------------
(* What a clear leaves *)

\* A clear that no record has crossed still finds Redis empty when it turns to the
\* memory: nothing but a record fills Redis.
ClearInv == P!PinGone /\ (sole # {} => redis = None)

LEMMA ClearStep == P!TypeOK /\ ClearInv /\ [P!Next]_P!vars => ClearInv'
<1> SUFFICES ASSUME P!TypeOK, ClearInv, [P!Next]_P!vars PROVE ClearInv'
  OBVIOUS
<1> USE DEF ClearInv, P!PinGone
<1>1. CASE P!Expire \/ P!Outage \/ UNCHANGED P!vars
  BY <1>1 DEF P!Expire, P!Outage, P!vars
<1>2. ASSUME NEW t \in Callers, P!Lookup(t) \/ P!LookupMemory(t) \/ P!Succeed(t) PROVE ClearInv'
  BY <1>2 DEF P!Lookup, P!LookupMemory, P!Succeed
<1>3. ASSUME NEW t \in Callers, NEW n \in PinNodes, P!Record(t, n) PROVE ClearInv'
  BY <1>3 DEF P!Record
<1>4. ASSUME NEW t \in Callers, P!Store(t) PROVE ClearInv'
  <2>1. \A i \in cleared' : i # Home[t] /\ memory'[i] = memory[i]
    BY <1>4 DEF P!Store, P!TypeOK
  <2>2. cleared' \subseteq cleared /\ sole' \subseteq sole /\ redis' = redis
    BY <1>4 DEF P!Store
  <2>. QED
    BY <2>1, <2>2
<1>5. ASSUME NEW t \in Callers, P!Clear(t) PROVE ClearInv'
  BY <1>5 DEF P!Clear
<1>6. ASSUME NEW t \in Callers, P!Forget(t) PROVE ClearInv'
  <2>1. \A i \in Instances :
          memory'[i] = None \/ (i # Home[t] /\ memory'[i] = memory[i])
    BY <1>6 DEF P!Forget, P!TypeOK
  <2>2. redis' = redis /\ sole' \subseteq sole
    BY <1>6 DEF P!Forget
  <2>3. \A i \in cleared' : i \in cleared \/ (i = Home[t] /\ t \in sole)
    BY <1>6 DEF P!Forget
  <2>4. memory'[Home[t]] = None
    BY <1>6, PartsAssumption DEF P!Forget, P!TypeOK, P!PinsAssumption
  <2>5. \A i \in cleared : i \in Instances
    BY DEF P!TypeOK
  <2>. QED
    BY <2>1, <2>2, <2>3, <2>4, <2>5
<1>. QED
  BY <1>1, <1>2, <1>3, <1>4, <1>5, <1>6 DEF P!Next, P!Task

\* Any number of instances and tasks, with outages, expiries and other requests of
\* the session at every await: a clear that reached Redis leaves its instance no
\* pin of the session until a node is recorded again.
THEOREM ClearsLeaveNoPin == P!Spec => []PinGone
<1>1. P!Init => ClearInv
  BY DEF P!Init, ClearInv, P!PinGone
<1>2. ClearInv => PinGone
  BY DEF ClearInv, PinGone
<1>. QED
  BY <1>1, <1>2, PinsTyping, ClearStep, PTL DEF P!Spec

-----------------------------------------------------------------------------
(* Delivery: the steps of the tasks and of the collector *)

Writing(w) == doing[w].step > 0
Handed(r) == phase[r] = "recorded"

\* A record is in one place: waiting, or with one writer, and only if it was
\* handed over; a task writes none but its own.
Places ==
  /\ \A w \in D!Recorders : Writing(w) => doing[w].item \in Tasks /\ Handed(doing[w].item)
  /\ \A w \in Tasks : Writing(w) => doing[w].item = w
  /\ \A i \in DOMAIN queue : queue[i] \in Tasks => Handed(queue[i])
  /\ \A i, j \in DOMAIN queue : queue[i] \in Tasks /\ queue[i] = queue[j] => i = j
  /\ \A v, w \in D!Recorders : Writing(v) /\ Writing(w) /\ doing[v].item = doing[w].item => v = w
  /\ \A i \in DOMAIN queue, w \in D!Recorders : Writing(w) => doing[w].item # queue[i]

\* The collector has no part in the step.
Calm ==
  /\ UNCHANGED D!collectorVars
  /\ \A r \in Tasks : Handed(r)' = Handed(r) /\ (Handed(r) => outcome'[r] = outcome[r])

\* A record is handed over.
Hands(r, result) ==
  /\ D!Submit(r)
  /\ ~Handed(r) /\ phase' = [phase EXCEPT ![r] = "recorded"]
  /\ outcome' = [outcome EXCEPT ![r] = result]

Results == D!Failed \cup {D!Success}

\* All steps but those of writing a record.
Gathers ==
  \/ Calm
  \/ \E r \in Tasks, result \in Results : Hands(r, result)
  \/ D!Notify /\ D!Ours
  \/ D!Take /\ D!Ours
  \/ D!Tick /\ D!Ours

LEMMA DeliveryFacts ==
  /\ IsFiniteSet(Tasks) /\ D!Worker \notin Tasks /\ D!Notice \notin Tasks
  /\ Queue \in Nat \ {0} /\ Ring \in Nat \ {0} /\ Windows \in Nat /\ Clock \in Nat /\ Notices \in Nat
  /\ Channel \in Nat \ {0} /\ Retries \in Nat \ {0}
<1>1. D!IsFiniteSet(Tasks) = IsFiniteSet(Tasks) BY DEF D!IsFiniteSet, IsFiniteSet
<1>2. QED BY <1>1, PartsAssumption DEF D!DeliveryAssumption, D!CollectorAssumption

\* What a task's step is to the collector.
LEMMA TaskSteps ==
  ASSUME D!TypeOK, NEW r \in Tasks, D!Task(r)
  PROVE  Calm \/ \E result \in Results : Hands(r, result)
<1> USE DEF Handed
<1>1. ASSUME NEW p \in D!Phases \ {"recorded"}, D!GoTo(r, p), phase[r] # "recorded", UNCHANGED outcome,
             UNCHANGED D!collectorVars
      PROVE  Calm
  BY <1>1 DEF Calm, D!GoTo, D!TypeOK
<1>2. ASSUME NEW result \in Results, D!Record(r, result), phase[r] # "recorded"
      PROVE  Hands(r, result)
  BY <1>2 DEF Hands, D!Record, D!GoTo
<1>3. ASSUME UNCHANGED phase, UNCHANGED outcome, UNCHANGED D!collectorVars PROVE Calm
  BY <1>3 DEF Calm
<1>4. CASE \E way \in {"kernel", "straight"} : D!Arrive(r, way)
  BY <1>1, <1>4 DEF D!Arrive, D!Quiet, D!Phases
<1>5. CASE D!KernelRefuses(r) \/ D!KernelAnswers(r)
  BY <1>2, <1>5 DEF D!KernelRefuses, D!KernelAnswers, Results, D!Failed
<1>6. CASE D!KernelStreams(r) \/ D!Abandon(r)
  BY <1>1, <1>6 DEF D!KernelStreams, D!Abandon, D!Quiet, D!Phases
<1>7. CASE \E signal \in D!Signals : D!Chunk(r, signal)
  BY <1>1, <1>7 DEF D!Chunk, D!Quiet, D!Phases
<1>8. CASE D!PushChunk(r)
  BY <1>1, <1>8 DEF D!PushChunk, D!Quiet, D!Phases
<1>9. CASE \E limited \in BOOLEAN : D!StreamBreaks(r, limited)
  BY <1>2, <1>9 DEF D!StreamBreaks, D!Settled, Results, D!Failed
<1>10. CASE D!ClientLost(r)
  BY <1>2, <1>10 DEF D!ClientLost, D!Settled, Results, D!Failed
<1>11. CASE D!StreamEnds(r)
  BY <1>2, <1>11 DEF D!StreamEnds, D!Settled, D!Ending, Results, D!Failed
<1>12. CASE D!Unserved(r)
  BY <1>1, <1>12 DEF D!Unserved, D!Quiet, D!Phases
<1>13. CASE D!Dispatch(r) \/ D!Resume(r)
  BY <1>1, <1>13 DEF D!Dispatch, D!Resume, D!Quiet, D!Phases
<1>14. CASE \E result \in {"rate_limited", "refused"}, retriable \in BOOLEAN : D!SendFails(r, result, retriable)
  BY <1>1, <1>14 DEF D!SendFails, D!Retry, D!Quiet, D!Phases
<1>15. CASE D!SendStreams(r) \/ D!BodyRead(r) \/ D!WholeBreaks(r)
  BY <1>2, <1>15 DEF D!SendStreams, D!BodyRead, D!WholeBreaks, Results, D!Failed
<1>16. CASE (\E p \in {"body", "whole"} : D!SendAnswers(r, p)) \/ D!BodyBreaks(r)
  BY <1>1, <1>16 DEF D!SendAnswers, D!BodyBreaks, D!Quiet, D!Phases
<1>17. CASE D!Read(r) \/ D!Leave(r)
  BY <1>3, <1>17 DEF D!Read, D!Leave, D!Quiet
<1>18. QED
  BY <1>4, <1>5, <1>6, <1>7, <1>8, <1>9, <1>10, <1>11, <1>12, <1>13, <1>14, <1>15, <1>16, <1>17 DEF D!Task

\* The types of the collector's part.
DoingType == [item : Tasks \cup {D!Notice}, step : 0..5, held : Nat]
CollectorTyped ==
  /\ queue \in Seq(Tasks \cup {D!Notice}) /\ Len(queue) <= Queue
  /\ doing \in [D!Recorders -> DoingType]
  /\ total \in Nat /\ successes \in Nat /\ head \in Nat /\ dropped \in Nat
  /\ ring \in Seq([seq : Nat, item : Tasks]) /\ Len(ring) <= Ring
  /\ now \in 0..Clock /\ notices \in 0..Notices
  /\ open.start \in 0..Clock /\ Len(past) <= Windows

LEMMA CollectorTypes == D!CollectorTypeOK <=> CollectorTyped
<1>1. Len(D!Steps) = 5 BY DEF D!Steps
<1>2. QED BY <1>1 DEF D!CollectorTypeOK, CollectorTyped, DoingType

\* A step of the recorder w.
Moves(w, to) == doing' = [doing EXCEPT ![w] = to]

\* What writing is, step by step.
WritingStep(w) ==
  /\ UNCHANGED <<queue, dropped, notices, now, phase, unread, gone, seen, owed, told, outcome, attempt>>
  /\ \/ /\ doing[w].step = 1 /\ Moves(w, [item |-> doing[w].item, step |-> 2, held |-> 0])
        /\ total' = total + 1
        /\ successes' = IF outcome[doing[w].item] \in D!Status200 THEN successes + 1 ELSE successes
        /\ UNCHANGED <<head, ring, open, past>>
     \/ /\ doing[w].step = 2 /\ Moves(w, [item |-> doing[w].item, step |-> 3, held |-> head])
        /\ head' = head + 1
        /\ UNCHANGED <<total, successes, ring, open, past>>
     \/ /\ doing[w].step = 3 /\ Moves(w, [item |-> doing[w].item, step |-> 4, held |-> 0])
        /\ ring' = Append(IF Len(ring) < Ring THEN ring ELSE Tail(ring),
                          [seq |-> doing[w].held, item |-> doing[w].item])
        /\ UNCHANGED <<total, successes, head, open, past>>
     \/ /\ doing[w].step = 4 /\ Moves(w, [item |-> doing[w].item, step |-> 5, held |-> now])
        /\ UNCHANGED <<total, successes, head, ring, open, past>>
     \/ /\ doing[w].step = 5 /\ Moves(w, D!Idle)
        /\ open' = [D!Rolled(doing[w].held)[1] EXCEPT !.rows[doing[w].item] = @ + 1]
        /\ past' = D!Rolled(doing[w].held)[2]
        /\ UNCHANGED <<total, successes, head, ring>>

LEMMA WriteSteps ==
  ASSUME CollectorTyped, NEW w \in D!Recorders, Writing(w), D!Writes(w)
  PROVE  WritingStep(w)
<1> USE DEF D!Writes, D!Ours
<1>1. doing[w].step \in 1..5 BY DEF CollectorTyped, DoingType, Writing
<1>2. /\ D!Steps[1] = "count" /\ D!Steps[2] = "number" /\ D!Steps[3] = "push" /\ D!Steps[4] = "read"
      /\ D!Steps[5] = "merge" /\ Len(D!Steps) = 5
  BY DEF D!Steps
<1>3. doing[w].step = 1 \/ doing[w].step = 2 \/ doing[w].step = 3 \/ doing[w].step = 4 \/ doing[w].step = 5
  BY <1>1
<1>4. ASSUME NEW held, D!Advance(w, held), doing[w].step # 5
      PROVE  Moves(w, [item |-> doing[w].item, step |-> doing[w].step + 1, held |-> held])
  BY <1>2, <1>4 DEF D!Advance, Moves, CollectorTyped, DoingType
<1>5. ASSUME doing[w].step = 5, NEW held, D!Advance(w, held) PROVE Moves(w, D!Idle)
  BY <1>2, <1>5 DEF D!Advance, Moves
<1>6. CASE D!Count(w, outcome[doing[w].item] \in D!Status200)
  <2>1. doing[w].step = 1 BY <1>2, <1>3, <1>6 DEF D!Count, D!At
  <2>2. doing[w].step # 5 /\ doing[w].step + 1 = 2 /\ D!Advance(w, 0) BY <1>6, <2>1 DEF D!Count
  <2>3. Moves(w, [item |-> doing[w].item, step |-> 2, held |-> 0]) BY <1>4, <2>2
  <2>4. QED BY <1>6, <2>1, <2>3 DEF D!Count, WritingStep
<1>7. CASE D!TakeNumber(w)
  <2>1. doing[w].step = 2 BY <1>2, <1>3, <1>7 DEF D!TakeNumber, D!At
  <2>2. doing[w].step # 5 /\ doing[w].step + 1 = 3 /\ D!Advance(w, head) BY <1>7, <2>1 DEF D!TakeNumber
  <2>3. Moves(w, [item |-> doing[w].item, step |-> 3, held |-> head]) BY <1>4, <2>2
  <2>4. QED BY <1>7, <2>1, <2>3 DEF D!TakeNumber, WritingStep
<1>8. CASE D!Push(w)
  <2>1. doing[w].step = 3 BY <1>2, <1>3, <1>8 DEF D!Push, D!At
  <2>2. doing[w].step # 5 /\ doing[w].step + 1 = 4 /\ D!Advance(w, 0) BY <1>8, <2>1 DEF D!Push
  <2>3. Moves(w, [item |-> doing[w].item, step |-> 4, held |-> 0]) BY <1>4, <2>2
  <2>4. QED BY <1>8, <2>1, <2>3 DEF D!Push, WritingStep
<1>9. CASE D!ReadClock(w)
  <2>1. doing[w].step = 4 BY <1>2, <1>3, <1>9 DEF D!ReadClock, D!At
  <2>2. doing[w].step # 5 /\ doing[w].step + 1 = 5 /\ D!Advance(w, now) BY <1>9, <2>1 DEF D!ReadClock
  <2>3. Moves(w, [item |-> doing[w].item, step |-> 5, held |-> now]) BY <1>4, <2>2
  <2>4. QED BY <1>9, <2>1, <2>3 DEF D!ReadClock, WritingStep
<1>10. CASE D!Merge(w)
  <2>1. doing[w].step = 5 BY <1>2, <1>3, <1>10 DEF D!Merge, D!At
  <2>2. Moves(w, D!Idle) BY <1>5, <1>10, <2>1 DEF D!Merge
  <2>3. QED BY <1>10, <2>1, <2>2 DEF D!Merge, WritingStep
<1>11. QED BY <1>6, <1>7, <1>8, <1>9, <1>10 DEF D!Write

(* Where the records are. *)
LEMMA PlacesStep ==
  ASSUME D!TypeOK, CollectorTyped, Places,
         Gathers \/ \E w \in D!Recorders : Writing(w) /\ D!Writes(w)
  PROVE  Places'
<1> USE DEF Handed, Writing
<1>1. CASE Calm
  <2>1. queue' = queue /\ doing' = doing BY <1>1 DEF Calm, D!collectorVars
  <2>2. \A q \in Tasks : Handed(q)' = Handed(q) BY <1>1 DEF Calm
  <2> HIDE DEF Handed
  <2>3. QED BY <2>1, <2>2 DEF Places
<1>2. ASSUME NEW r \in Tasks, NEW result \in Results, Hands(r, result) PROVE Places'
  <2>1. \A q \in Tasks : Handed(q)' <=> Handed(q) \/ q = r BY <1>2 DEF Hands, D!TypeOK
  <2>2. doing[r].step = 0 /\ ~Handed(r) /\ r \in D!Recorders BY <1>2 DEF Hands, D!Submit, D!Recorders
  <2>3. \A w \in D!Recorders : Writing(w) => doing[w].item # r BY <2>2 DEF Places
  <2>4. \A i \in DOMAIN queue : queue[i] # r BY <2>2 DEF Places
  <2>5. CASE D!HasRoom
    <3>1. queue' = Append(queue, r) /\ doing' = doing BY <1>2, <2>5 DEF Hands, D!Submit
    <3>2. /\ DOMAIN queue = 1..Len(queue) /\ DOMAIN queue' = 1..(Len(queue) + 1) /\ Len(queue) \in Nat
          /\ \A i \in 1..Len(queue) : queue'[i] = queue[i]
          /\ queue'[Len(queue) + 1] = r
      BY <3>1 DEF CollectorTyped
    <3>3. \A i \in DOMAIN queue' : (i \in DOMAIN queue /\ queue'[i] = queue[i]) \/ (i = Len(queue) + 1 /\ queue'[i] = r)
      BY <3>2
    <3> HIDE DEF Handed
    <3>4. QED BY <2>1, <2>3, <2>4, <3>1, <3>3 DEF Places
  <2>6. CASE ~D!HasRoom
    <3>1. queue' = queue /\ doing' = [doing EXCEPT ![r] = [item |-> r, step |-> 1, held |-> 0]]
      BY <1>2, <2>6 DEF Hands, D!Submit, D!Begin
    <3>2. \A w \in D!Recorders : doing'[w] = IF w = r THEN [item |-> r, step |-> 1, held |-> 0] ELSE doing[w]
      BY <3>1 DEF CollectorTyped
    <3> HIDE DEF Handed
    <3>3. QED BY <2>1, <2>3, <2>4, <3>1, <3>2 DEF Places
  <2>7. QED BY <2>5, <2>6
<1>3. CASE D!Notify /\ D!Ours
  <2>1. phase' = phase /\ doing' = doing /\ (queue' = Append(queue, D!Notice) \/ queue' = queue)
    BY <1>3 DEF D!Notify, D!Ours
  <2>2. CASE queue' = queue BY <2>1, <2>2 DEF Places
  <2>3. CASE queue' = Append(queue, D!Notice)
    <3>2. /\ DOMAIN queue = 1..Len(queue) /\ DOMAIN queue' = 1..(Len(queue) + 1) /\ Len(queue) \in Nat
          /\ \A i \in 1..Len(queue) : queue'[i] = queue[i]
          /\ queue'[Len(queue) + 1] = D!Notice
      BY <2>3 DEF CollectorTyped
    <3>3. \A i \in DOMAIN queue' : (i \in DOMAIN queue /\ queue'[i] = queue[i]) \/ (i = Len(queue) + 1 /\ queue'[i] = D!Notice)
      BY <3>2
    <3>4. \A w \in D!Recorders : Writing(w) => doing[w].item # D!Notice BY DeliveryFacts DEF Places
    <3>5. QED BY <2>1, <3>3, <3>4, DeliveryFacts DEF Places
  <2>4. QED BY <2>1, <2>2, <2>3
<1>4. CASE D!Take /\ D!Ours
  <2>1. queue # <<>> /\ doing[D!Worker].step = 0 /\ queue' = Tail(queue) /\ phase' = phase /\ D!Worker \in D!Recorders
    BY <1>4 DEF D!Take, D!Ours, D!Recorders
  <2>2. /\ DOMAIN queue = 1..Len(queue) /\ DOMAIN queue' = 1..(Len(queue) - 1) /\ Len(queue) \in Nat \ {0}
        /\ \A i \in 1..(Len(queue) - 1) : queue'[i] = queue[i + 1]
        /\ Head(queue) = queue[1]
    BY <2>1 DEF CollectorTyped
  <2>3. \A i \in DOMAIN queue' : i + 1 \in DOMAIN queue /\ i + 1 # 1 /\ queue'[i] = queue[i + 1] BY <2>2
  <2>4. 1 \in DOMAIN queue BY <2>2
  <2>5. \A i, j \in DOMAIN queue' : i + 1 = j + 1 => i = j BY <2>2
  <2>6. CASE Head(queue) = D!Notice
    <3>1. doing' = doing BY <1>4, <2>6 DEF D!Take
    <3>2. QED BY <2>1, <2>3, <2>5, <3>1 DEF Places
  <2>7. CASE Head(queue) # D!Notice
    <3> DEFINE q == Head(queue)
    <3>1. doing' = [doing EXCEPT ![D!Worker] = [item |-> q, step |-> 1, held |-> 0]]
      BY <1>4, <2>7 DEF D!Take, D!Begin
    <3>2. \A w \in D!Recorders : doing'[w] = IF w = D!Worker THEN [item |-> q, step |-> 1, held |-> 0] ELSE doing[w]
      BY <3>1 DEF CollectorTyped
    <3>3. q \in Tasks /\ Handed(q) /\ q = queue[1] BY <2>2, <2>4, <2>7 DEF CollectorTyped, Places
    <3>4. \A w \in D!Recorders : Writing(w) => doing[w].item # q BY <2>4, <3>3 DEF Places
    <3>5. \A i \in DOMAIN queue' : queue'[i] # q BY <2>3, <2>4, <3>3 DEF Places
    <3> HIDE DEF q
    <3>6. \A w \in D!Recorders :
            Writing(w)' => \/ w = D!Worker /\ doing'[w].item = q
                           \/ w # D!Worker /\ Writing(w) /\ doing'[w].item = doing[w].item
      BY <3>2
    <3>7. \A p \in Tasks : Handed(p)' = Handed(p) BY <2>1
    <3> HIDE DEF Handed, Writing
    <3>8. /\ \A w \in D!Recorders : Writing(w)' => doing'[w].item \in Tasks /\ Handed(doing[w].item)'
          /\ \A w \in Tasks : Writing(w)' => doing'[w].item = w
      BY <3>3, <3>6, <3>7, DeliveryFacts DEF Places, D!Recorders
    <3>9. \A v, w \in D!Recorders : Writing(v)' /\ Writing(w)' /\ doing'[v].item = doing'[w].item => v = w
      BY <3>4, <3>6 DEF Places
    <3>10. \A i \in DOMAIN queue', w \in D!Recorders : Writing(w)' => doing'[w].item # queue'[i]
      BY <2>3, <3>5, <3>6 DEF Places
    <3>11. /\ \A i \in DOMAIN queue' : queue'[i] \in Tasks => Handed(queue[i])'
           /\ \A i, j \in DOMAIN queue' : queue'[i] \in Tasks /\ queue'[i] = queue'[j] => i = j
      BY <2>3, <2>5, <3>7 DEF Places
    <3>12. QED BY <3>8, <3>9, <3>10, <3>11 DEF Places
  <2>8. QED BY <2>6, <2>7
<1>5. CASE D!Tick /\ D!Ours BY <1>5 DEF D!Tick, D!Ours, Places
<1>6. ASSUME NEW w \in D!Recorders, Writing(w), D!Writes(w) PROVE Places'
  <2>a. WritingStep(w) BY <1>6, WriteSteps
  <2>b. doing[w] \in DoingType BY <1>6 DEF CollectorTyped
  <2>c. \A n, h : [item |-> doing[w].item, step |-> n, held |-> h].item = doing[w].item BY <2>b DEF DoingType
  <2>d. D!Idle.step = 0 BY DEF D!Idle
  <2>1. queue' = queue /\ phase' = phase /\ \E to : Moves(w, to) /\ (to.item = doing[w].item \/ to.step = 0)
    <3>1. queue' = queue /\ phase' = phase BY <2>a DEF WritingStep
    <3>2. \/ \E n, h : Moves(w, [item |-> doing[w].item, step |-> n, held |-> h])
          \/ Moves(w, D!Idle)
      BY <2>a DEF WritingStep
    <3>3. QED BY <2>c, <2>d, <3>1, <3>2
  <2>2. PICK to : Moves(w, to) /\ (to.item = doing[w].item \/ to.step = 0) BY <2>1
  <2>3. \A v \in D!Recorders : doing'[v] = IF v = w THEN to ELSE doing[v]
    BY <2>2 DEF Moves, CollectorTyped
  <2>4. ~(0 > 0) OBVIOUS
  <2>5. \A v \in D!Recorders : Writing(v)' => Writing(v) /\ doing'[v].item = doing[v].item
    BY <1>6, <2>2, <2>3, <2>4
  <2> HIDE DEF Writing
  <2>6. QED BY <2>1, <2>5 DEF Places, D!Recorders
<1>7. QED BY <1>1, <1>2, <1>3, <1>4, <1>5, <1>6 DEF Gathers

LEMMA DeliverySteps ==
  ASSUME D!TypeOK, [D!Next]_D!vars
  PROVE  Gathers \/ \E w \in D!Recorders : Writing(w) /\ D!Writes(w)
<1>1. CASE UNCHANGED D!vars BY <1>1 DEF D!vars, Gathers, Calm, Handed
<1>2. ASSUME NEW r \in Tasks, D!Task(r) PROVE Gathers BY <1>2, TaskSteps DEF Gathers
<1>3. CASE D!Telemetry BY <1>3 DEF D!Telemetry, Gathers, Writing
<1>4. QED BY <1>1, <1>2, <1>3 DEF D!Next

-----------------------------------------------------------------------------
(* How far the writing of the records is. *)

\* The writing of r is past a step.
Beyond(r, k) ==
  /\ Handed(r)
  /\ \A i \in DOMAIN queue : queue[i] # r
  /\ \A w \in D!Recorders : Writing(w) /\ doing[w].item = r => doing[w].step > k

LEMMA BeyondIsBehind ==
  ASSUME CollectorTyped, NEW r \in Tasks
  PROVE  /\ \A k \in Nat : D!Behind(r, k) <=> Beyond(r, k)
         /\ D!Written(r) <=> Beyond(r, 5)
<1>1. D!Waiting(r) = {} <=> \A i \in DOMAIN queue : queue[i] # r BY DEF D!Waiting
<1>2. \A k \in Nat : D!Reached(r, k) <=> \A w \in D!Recorders : Writing(w) /\ doing[w].item = r => doing[w].step > k
  BY DEF D!Reached, D!Writers, Writing
<1>3. D!Writers(r) = {} <=> \A w \in D!Recorders : Writing(w) /\ doing[w].item = r => doing[w].step > 5
  <2>1. \A w \in D!Recorders : ~(doing[w].step > 5)
    <3>1. \A w \in D!Recorders : doing[w].step \in 0..5 BY DEF CollectorTyped, DoingType
    <3>2. \A n \in 0..5 : ~(n > 5) OBVIOUS
    <3>3. QED BY <3>1, <3>2
  <2>2. D!Writers(r) = {} <=> \A w \in D!Recorders : ~(Writing(w) /\ doing[w].item = r) BY DEF D!Writers, Writing
  <2>3. QED BY <2>1, <2>2
<1>4. r \in D!Handed <=> Handed(r) BY DEF D!Handed, Handed
<1>5. QED BY <1>1, <1>2, <1>3, <1>4 DEF D!Behind, D!Written, Beyond

LEMMA BeyondStays ==
  ASSUME D!TypeOK, CollectorTyped, Places, Gathers
  PROVE  \A r \in Tasks, k \in 1..5 : (Beyond(r, k)' <=> Beyond(r, k)) /\ (Beyond(r, k) => outcome'[r] = outcome[r])
<1>1. CASE Calm
  <2>1. queue' = queue /\ doing' = doing BY <1>1 DEF Calm, D!collectorVars
  <2>2. QED BY <1>1, <2>1 DEF Calm, Beyond, Writing
<1>2. ASSUME NEW q \in Tasks, NEW result \in Results, Hands(q, result),
             NEW r \in Tasks, NEW k \in 1..5
      PROVE  (Beyond(r, k)' <=> Beyond(r, k)) /\ (Beyond(r, k) => outcome'[r] = outcome[r])
  <2>1. Handed(r)' <=> Handed(r) \/ r = q BY <1>2 DEF Hands, D!TypeOK, Handed
  <2>2. doing[q].step = 0 /\ ~Handed(q) /\ q \in D!Recorders BY <1>2 DEF Hands, D!Submit, D!Recorders
  <2>3. r # q => outcome'[r] = outcome[r] BY <1>2 DEF Hands, D!TypeOK
  <2>4. r = q => ~Beyond(r, k) BY <2>2 DEF Beyond
  <2>5. CASE D!HasRoom
    <3>1. queue' = Append(queue, q) /\ doing' = doing BY <1>2, <2>5 DEF Hands, D!Submit
    <3>2. /\ DOMAIN queue = 1..Len(queue) /\ DOMAIN queue' = 1..(Len(queue) + 1) /\ Len(queue) \in Nat
          /\ \A i \in 1..Len(queue) : queue'[i] = queue[i]
          /\ queue'[Len(queue) + 1] = q
      BY <3>1 DEF CollectorTyped
    <3>3. /\ \A i \in DOMAIN queue' : (i \in DOMAIN queue /\ queue'[i] = queue[i]) \/ (i = Len(queue) + 1 /\ queue'[i] = q)
          /\ \A i \in DOMAIN queue : i \in DOMAIN queue' /\ queue'[i] = queue[i]
          /\ \E i \in DOMAIN queue' : queue'[i] = q
      BY <3>2
    <3> HIDE DEF Handed
    <3>4. r = q => ~Beyond(r, k)' BY <3>3 DEF Beyond
    <3>5. r # q => (Beyond(r, k)' <=> Beyond(r, k)) BY <2>1, <3>1, <3>3 DEF Beyond, Writing
    <3>6. QED BY <2>3, <2>4, <3>4, <3>5
  <2>6. CASE ~D!HasRoom
    <3>1. queue' = queue /\ doing' = [doing EXCEPT ![q] = [item |-> q, step |-> 1, held |-> 0]]
      BY <1>2, <2>6 DEF Hands, D!Submit, D!Begin
    <3>2. \A w \in D!Recorders : doing'[w] = IF w = q THEN [item |-> q, step |-> 1, held |-> 0] ELSE doing[w]
      BY <3>1 DEF CollectorTyped
    <3> HIDE DEF Handed
    <3>3. r = q => ~Beyond(r, k)' BY <2>2, <3>2 DEF Beyond, Writing
    <3>4. r # q => (Beyond(r, k)' <=> Beyond(r, k)) BY <2>1, <2>2, <3>1, <3>2 DEF Beyond, Writing
    <3>5. QED BY <2>3, <2>4, <3>3, <3>4
  <2>7. QED BY <2>5, <2>6
<1>3. CASE D!Notify /\ D!Ours
  <2>1. /\ phase' = phase /\ doing' = doing /\ outcome' = outcome
        /\ queue' = Append(queue, D!Notice) \/ queue' = queue
    BY <1>3 DEF D!Notify, D!Ours
  <2>2. \A r \in Tasks : (\A i \in DOMAIN queue' : queue'[i] # r) <=> (\A i \in DOMAIN queue : queue[i] # r)
    <3>1. CASE queue' = Append(queue, D!Notice)
      <4>1. /\ DOMAIN queue = 1..Len(queue) /\ DOMAIN queue' = 1..(Len(queue) + 1) /\ Len(queue) \in Nat
            /\ \A i \in 1..Len(queue) : queue'[i] = queue[i]
            /\ queue'[Len(queue) + 1] = D!Notice
        BY <3>1 DEF CollectorTyped
      <4>2. QED BY <4>1, DeliveryFacts
    <3>2. QED BY <2>1, <3>1
  <2>3. QED BY <2>1, <2>2 DEF Beyond, Writing, Handed
<1>4. CASE D!Take /\ D!Ours
  <2>1. /\ queue # <<>> /\ doing[D!Worker].step = 0 /\ queue' = Tail(queue) /\ phase' = phase
        /\ D!Worker \in D!Recorders /\ outcome' = outcome
    BY <1>4 DEF D!Take, D!Ours, D!Recorders
  <2>2. /\ DOMAIN queue = 1..Len(queue) /\ DOMAIN queue' = 1..(Len(queue) - 1) /\ Len(queue) \in Nat \ {0}
        /\ \A i \in 1..(Len(queue) - 1) : queue'[i] = queue[i + 1]
        /\ Head(queue) = queue[1]
    BY <2>1 DEF CollectorTyped
  <2>3. /\ \A i \in DOMAIN queue' : i + 1 \in DOMAIN queue /\ i + 1 # 1 /\ queue'[i] = queue[i + 1]
        /\ \A i \in DOMAIN queue : i # 1 => i - 1 \in DOMAIN queue' /\ queue'[i - 1] = queue[i]
        /\ 1 \in DOMAIN queue
    BY <2>2
  <2>4. \A r \in Tasks : Handed(r)' = Handed(r) BY <2>1 DEF Handed
  <2> HIDE DEF Handed
  <2>5. CASE Head(queue) = D!Notice
    <3>1. doing' = doing BY <1>4, <2>5 DEF D!Take
    <3>2. \A r \in Tasks : (\A i \in DOMAIN queue' : queue'[i] # r) <=> (\A i \in DOMAIN queue : queue[i] # r)
      BY <2>2, <2>3, <2>5, DeliveryFacts
    <3>3. QED BY <2>1, <2>4, <3>1, <3>2 DEF Beyond, Writing
  <2>6. CASE Head(queue) # D!Notice
    <3> DEFINE q == Head(queue)
    <3>1. doing' = [doing EXCEPT ![D!Worker] = [item |-> q, step |-> 1, held |-> 0]]
      BY <1>4, <2>6 DEF D!Take, D!Begin
    <3>2. \A w \in D!Recorders : doing'[w] = IF w = D!Worker THEN [item |-> q, step |-> 1, held |-> 0] ELSE doing[w]
      BY <3>1 DEF CollectorTyped
    <3>3. q = queue[1] /\ q \in Tasks BY <2>2, <2>3, <2>6 DEF CollectorTyped
    <3> HIDE DEF q
    <3>4. \A r \in Tasks, k \in 1..5 : r = q => ~Beyond(r, k) /\ ~Beyond(r, k)'
      <4>1. \A k \in 1..5 : ~(1 > k) /\ 1 > 0 OBVIOUS
      <4>2. doing'[D!Worker].item = q /\ doing'[D!Worker].step = 1 BY <2>1, <3>2
      <4>3. \A r \in Tasks, k \in 1..5 : r = q => ~Beyond(r, k) BY <2>3, <3>3 DEF Beyond
      <4>4. \A r \in Tasks, k \in 1..5 : r = q => ~Beyond(r, k)' BY <2>1, <4>1, <4>2 DEF Beyond, Writing
      <4>5. QED BY <4>3, <4>4
    <3>5. \A r \in Tasks : r # q => ((\A i \in DOMAIN queue' : queue'[i] # r) <=> (\A i \in DOMAIN queue : queue[i] # r))
      BY <2>3, <3>3
    <3>6. \A r \in Tasks, w \in D!Recorders :
            r # q => ((Writing(w)' /\ doing'[w].item = r) <=> (Writing(w) /\ doing[w].item = r))
                  /\ (Writing(w) /\ doing[w].item = r => doing'[w].step = doing[w].step)
      BY <2>1, <3>2 DEF Writing
    <3>7. \A r \in Tasks, k \in 1..5 : r # q => (Beyond(r, k)' <=> Beyond(r, k))
      BY <2>4, <3>5, <3>6 DEF Beyond
    <3>8. QED BY <2>1, <3>4, <3>7
  <2>7. QED BY <2>5, <2>6
<1>5. CASE D!Tick /\ D!Ours BY <1>5 DEF D!Tick, D!Ours, Beyond, Writing, Handed
<1>6. QED BY <1>1, <1>2, <1>3, <1>4, <1>5 DEF Gathers

LEMMA BeyondMoves ==
  ASSUME D!TypeOK, CollectorTyped, Places, NEW w \in D!Recorders, Writing(w), D!Writes(w)
  PROVE  /\ doing[w].item \in Tasks /\ doing[w].step \in 1..5
         /\ \A k \in 1..5 : k >= doing[w].step => ~Beyond(doing[w].item, k)
         /\ \A r \in Tasks, k \in 1..5 :
              Beyond(r, k)' <=> Beyond(r, k) \/ (r = doing[w].item /\ k = doing[w].step)
         /\ outcome' = outcome /\ phase' = phase
<1> DEFINE q == doing[w].item
           n == doing[w].step
<1>1. q \in Tasks /\ n \in 1..5 /\ Handed(q) BY DEF Places, CollectorTyped, DoingType, Writing
<1>3. WritingStep(w) /\ phase' = phase /\ outcome' = outcome BY WriteSteps DEF WritingStep
<1>4. queue' = queue BY <1>3 DEF WritingStep
<1>5. PICK to : /\ Moves(w, to)
                /\ \/ n = 5 /\ to.step = 0
                   \/ n \in 1..4 /\ to.item = q /\ to.step = n + 1
  <2>1. \/ n = 1 /\ \E h : Moves(w, [item |-> q, step |-> 2, held |-> h])
        \/ n = 2 /\ \E h : Moves(w, [item |-> q, step |-> 3, held |-> h])
        \/ n = 3 /\ \E h : Moves(w, [item |-> q, step |-> 4, held |-> h])
        \/ n = 4 /\ \E h : Moves(w, [item |-> q, step |-> 5, held |-> h])
        \/ n = 5 /\ Moves(w, D!Idle)
    BY <1>3 DEF WritingStep
  <2> HIDE DEF q, n
  <2>2. \A m, h : [item |-> q, step |-> m, held |-> h].item = q /\ [item |-> q, step |-> m, held |-> h].step = m
    OBVIOUS
  <2>3. D!Idle.step = 0 BY DEF D!Idle
  <2>4. \E to : \/ Moves(w, to) /\ n = 5 /\ to.step = 0
                \/ Moves(w, to) /\ n \in 1..4 /\ to.item = q /\ to.step = n + 1
    <3>1. CASE n = 5 /\ Moves(w, D!Idle) BY <2>3, <3>1
    <3>2. CASE n = 1 /\ \E h : Moves(w, [item |-> q, step |-> 2, held |-> h]) BY <2>2, <3>2
    <3>3. CASE n = 2 /\ \E h : Moves(w, [item |-> q, step |-> 3, held |-> h]) BY <2>2, <3>3
    <3>4. CASE n = 3 /\ \E h : Moves(w, [item |-> q, step |-> 4, held |-> h]) BY <2>2, <3>4
    <3>5. CASE n = 4 /\ \E h : Moves(w, [item |-> q, step |-> 5, held |-> h]) BY <2>2, <3>5
    <3>6. QED BY <2>1, <3>1, <3>2, <3>3, <3>4, <3>5
  <2>5. QED BY <2>4
<1>6. \A r \in Tasks : (\A i \in DOMAIN queue : queue[i] # r) <=> (\A i \in DOMAIN queue' : queue'[i] # r)
  BY <1>4
<1>7. \A i \in DOMAIN queue : queue[i] # q BY DEF Places
<1>8. \A v \in D!Recorders : v # w /\ Writing(v) => doing[v].item # q BY DEF Places
<1>9. \A r \in Tasks, k \in 1..5 : r = q => (Beyond(r, k) <=> n > k)
  BY <1>1, <1>7, <1>8 DEF Beyond, Writing
<1>10. /\ \A v \in D!Recorders \ {w} : doing'[v] = doing[v]
       /\ \/ n = 5 /\ doing'[w].step = 0
          \/ n \in 1..4 /\ doing'[w].item = q /\ doing'[w].step = n + 1
  BY <1>5 DEF Moves, CollectorTyped
<1>11. \A r \in Tasks, k \in 1..5 : r = q => (Beyond(r, k)' <=> n + 1 > k)
  <2> SUFFICES ASSUME NEW k \in 1..5 PROVE \A r \in Tasks : r = q => (Beyond(r, k)' <=> n + 1 > k) OBVIOUS
  <2>1. \A r \in Tasks : r = q => Handed(r)' /\ \A i \in DOMAIN queue' : queue'[i] # r
    BY <1>1, <1>3, <1>4, <1>7 DEF Handed
  <2>2. \A v \in D!Recorders : v # w /\ Writing(v)' => doing'[v].item # q BY <1>8, <1>10 DEF Writing
  <2>3. CASE n = 5 /\ doing'[w].step = 0
    <3>1. ~Writing(w)' /\ 6 > k BY <2>3 DEF Writing
    <3>2. QED BY <2>1, <2>2, <2>3, <3>1 DEF Beyond
  <2>4. CASE n \in 1..4 /\ doing'[w].item = q /\ doing'[w].step = n + 1
    <3>1. Writing(w)' BY <2>4 DEF Writing
    <3>2. QED BY <2>1, <2>2, <2>4, <3>1 DEF Beyond
  <2>5. QED BY <1>10, <2>3, <2>4
<1>12. \A r \in Tasks, k \in 1..5 : r # q => (Beyond(r, k)' <=> Beyond(r, k))
  <2>1. \A r \in Tasks, v \in D!Recorders :
          r # q => (Writing(v)' /\ doing'[v].item = r <=> Writing(v) /\ doing[v].item = r)
                   /\ (Writing(v) /\ doing[v].item = r => doing'[v].step = doing[v].step)
    BY <1>10 DEF Writing
  <2>2. \A r \in Tasks : Handed(r)' <=> Handed(r) BY <1>3 DEF Handed
  <2>3. QED BY <1>6, <2>1, <2>2 DEF Beyond
<1>13. \A k \in 1..5 : (n > k <=> ~(k >= n)) /\ (n + 1 > k <=> n > k \/ k = n) BY <1>1
<1> HIDE DEF q, n
<1>14. \A r \in Tasks, k \in 1..5 : Beyond(r, k)' <=> Beyond(r, k) \/ (r = q /\ k = n)
  BY <1>9, <1>11, <1>12, <1>13
<1>15. \A k \in 1..5 : k >= n => ~Beyond(q, k) BY <1>1, <1>9, <1>13
<1>16. QED BY <1>1, <1>3, <1>14, <1>15 DEF q, n

\* The counters count what they have been told of.
Tallies ==
  /\ total = Cardinality({r \in Tasks : Beyond(r, 1)})
  /\ successes = Cardinality({r \in Tasks : Beyond(r, 1) /\ outcome[r] \in D!Status200})
  /\ head = Cardinality({r \in Tasks : Beyond(r, 2)})

LEMMA TalliesStay ==
  ASSUME D!TypeOK, CollectorTyped, Places, Tallies, Gathers
  PROVE  Tallies'
<1>1. total' = total /\ successes' = successes /\ head' = head
  BY DEF Gathers, Calm, D!collectorVars, Hands, D!Submit, D!Notify, D!Take, D!Tick
<1>2. 1 \in 1..5 /\ 2 \in 1..5 OBVIOUS
<1>3. \A r \in Tasks : /\ Beyond(r, 1)' <=> Beyond(r, 1)
                       /\ Beyond(r, 2)' <=> Beyond(r, 2)
                       /\ Beyond(r, 1) => outcome'[r] = outcome[r]
  BY <1>2, BeyondStays
<1>4. QED BY <1>1, <1>3 DEF Tallies

LEMMA TalliesMove ==
  ASSUME D!TypeOK, CollectorTyped, Places, Tallies, NEW w \in D!Recorders, Writing(w), D!Writes(w)
  PROVE  Tallies'
<1> DEFINE q == doing[w].item
           n == doing[w].step
           Counted == {r \in Tasks : Beyond(r, 1)}
           Succeeded == {r \in Tasks : Beyond(r, 1) /\ outcome[r] \in D!Status200}
           Numbered == {r \in Tasks : Beyond(r, 2)}
<1>1. /\ q \in Tasks /\ n \in 1..5 /\ outcome' = outcome
      /\ \A k \in 1..5 : k >= n => ~Beyond(q, k)
      /\ \A r \in Tasks, k \in 1..5 : Beyond(r, k)' <=> Beyond(r, k) \/ (r = q /\ k = n)
  BY BeyondMoves
<1>2. /\ 1 \in 1..5 /\ 2 \in 1..5 /\ 1 >= 1 /\ 2 >= 2 OBVIOUS
<1>3. /\ \A r \in Tasks : Beyond(r, 1)' <=> Beyond(r, 1) \/ (r = q /\ n = 1)
      /\ \A r \in Tasks : Beyond(r, 2)' <=> Beyond(r, 2) \/ (r = q /\ n = 2)
      /\ n = 1 => ~Beyond(q, 1)
      /\ n = 2 => ~Beyond(q, 2)
  BY <1>1, <1>2
<1>4. WritingStep(w) BY WriteSteps
<1>5. /\ IsFiniteSet(Counted) /\ IsFiniteSet(Succeeded) /\ IsFiniteSet(Numbered)
  BY DeliveryFacts, FS_Subset
<1>6. \A S, x : IsFiniteSet(S) /\ x \notin S => Cardinality(S \cup {x}) = Cardinality(S) + 1
  BY FS_AddElement
<1>7. total = Cardinality(Counted) /\ successes = Cardinality(Succeeded) /\ head = Cardinality(Numbered)
  BY DEF Tallies
<1>8. CASE n = 1
  <2>1. total' = total + 1 /\ successes' = (IF outcome[q] \in D!Status200 THEN successes + 1 ELSE successes) /\ head' = head
    BY <1>4, <1>8 DEF WritingStep
  <2>2. Counted' = Counted \cup {q} /\ q \notin Counted BY <1>1, <1>3, <1>8
  <2>3. outcome[q] \in D!Status200 => Succeeded' = Succeeded \cup {q} /\ q \notin Succeeded BY <1>1, <1>3, <1>8
  <2>4. outcome[q] \notin D!Status200 => Succeeded' = Succeeded BY <1>1, <1>3, <1>8
  <2>5. Numbered' = Numbered BY <1>3, <1>8
  <2> HIDE DEF Counted, Succeeded, Numbered, q, n
  <2>6. total' = Cardinality(Counted') /\ successes' = Cardinality(Succeeded') /\ head' = Cardinality(Numbered')
    BY <1>5, <1>6, <1>7, <2>1, <2>2, <2>3, <2>4, <2>5
  <2>7. QED BY <2>6 DEF Tallies, Counted, Succeeded, Numbered
<1>9. CASE n = 2
  <2>1. total' = total /\ successes' = successes /\ head' = head + 1 BY <1>4, <1>9 DEF WritingStep
  <2>2. Numbered' = Numbered \cup {q} /\ q \notin Numbered BY <1>1, <1>3, <1>9
  <2>3. Counted' = Counted /\ Succeeded' = Succeeded BY <1>1, <1>3, <1>9
  <2> HIDE DEF Counted, Succeeded, Numbered, q, n
  <2>4. total' = Cardinality(Counted') /\ successes' = Cardinality(Succeeded') /\ head' = Cardinality(Numbered')
    BY <1>5, <1>6, <1>7, <2>1, <2>2, <2>3
  <2>5. QED BY <2>4 DEF Tallies, Counted, Succeeded, Numbered
<1>10. CASE n # 1 /\ n # 2
  <2>1. total' = total /\ successes' = successes /\ head' = head BY <1>4, <1>10 DEF WritingStep
  <2>2. Numbered' = Numbered /\ Counted' = Counted /\ Succeeded' = Succeeded BY <1>1, <1>3, <1>10
  <2> HIDE DEF Counted, Succeeded, Numbered, q, n
  <2>3. total' = Cardinality(Counted') /\ successes' = Cardinality(Succeeded') /\ head' = Cardinality(Numbered')
    BY <1>7, <2>1, <2>2
  <2>4. QED BY <2>3 DEF Tallies, Counted, Succeeded, Numbered
<1>11. QED BY <1>8, <1>9, <1>10

LEMMA TalliesAgree ==
  ASSUME D!TypeOK, CollectorTyped, Places, Tallies
  PROVE  D!CountersAgree
<1>1. \A S : D!Cardinality(S) = Cardinality(S) BY DEF D!Cardinality, Cardinality
<1>2. \A r \in Tasks : (D!Behind(r, 1) <=> Beyond(r, 1)) /\ (D!Behind(r, 2) <=> Beyond(r, 2)) BY BeyondIsBehind
<1>3. /\ total = D!Cardinality({r \in Tasks : D!Behind(r, 1)})
      /\ successes = D!Cardinality({r \in Tasks : D!Behind(r, 1) /\ outcome[r] \in D!Status200})
      /\ head = D!Cardinality({r \in Tasks : D!Behind(r, 2)})
  BY <1>1, <1>2 DEF Tallies
<1>4. ASSUME NEW r \in Tasks
      PROVE  LET places == D!Cardinality(D!Waiting(r)) + D!Cardinality(D!Writers(r))
             IN  places <= 1 /\ (places = 1 => r \in D!Handed)
  <2> DEFINE A == D!Waiting(r)
             B == D!Writers(r)
  <2>1. /\ A = {} \/ \E i : A = {i} /\ Handed(r)
        /\ B = {} \/ \E w : B = {w} /\ Handed(r)
        /\ A = {} \/ B = {}
    <3>1. A = {} \/ \E i : A = {i} /\ Handed(r)
      <4>1. \A i, j \in A : i = j /\ Handed(r) BY DEF D!Waiting, Places
      <4>2. QED BY <4>1
    <3>2. B = {} \/ \E w : B = {w} /\ Handed(r)
      <4>1. \A v, w \in B : v = w /\ Handed(r) BY DEF D!Writers, Places, Writing
      <4>2. QED BY <4>1
    <3>3. A = {} \/ B = {} BY DEF D!Waiting, D!Writers, Places, Writing
    <3>4. QED BY <3>1, <3>2, <3>3
  <2>2. Cardinality({}) = 0 /\ \A x : Cardinality({x}) = 1 BY FS_EmptySet, FS_Singleton
  <2>3. Handed(r) <=> r \in D!Handed BY DEF Handed, D!Handed
  <2> HIDE DEF A, B
  <2>4. /\ Cardinality(A) + Cardinality(B) <= 1
        /\ Cardinality(A) + Cardinality(B) = 1 => r \in D!Handed
    <3>1. Cardinality(A) = 0 \/ (Cardinality(A) = 1 /\ Handed(r)) BY <2>1, <2>2
    <3>2. Cardinality(B) = 0 \/ (Cardinality(B) = 1 /\ Handed(r)) BY <2>1, <2>2
    <3>3. Cardinality(A) = 0 \/ Cardinality(B) = 0 BY <2>1, <2>2
    <3>4. QED BY <2>3, <3>1, <3>2, <3>3
  <2>5. QED BY <1>1, <2>4 DEF A, B
<1>5. QED BY <1>3, <1>4 DEF D!CountersAgree

-----------------------------------------------------------------------------
(* Windows *)

Window == [start : Nat, rows : [Tasks -> Nat]]

\* The records of S, and no others, are in at most one of the windows; all are.
Tidy(windows, S) ==
  \A r \in Tasks, i \in DOMAIN windows :
    windows[i].rows[r] > 0 =>
      /\ r \in S /\ windows[i].rows[r] = 1
      /\ \A j \in DOMAIN windows : windows[j].rows[r] > 0 => j = i
Full(windows, S) == \A r \in S : \E i \in DOMAIN windows : windows[i].rows[r] > 0

LEMMA RowAdded ==
  ASSUME NEW S \in SUBSET Tasks, NEW q \in Tasks \ S,
         NEW c \in Seq(Window), NEW a \in Window, NEW b \in Window,
         b.rows = [a.rows EXCEPT ![q] = @ + 1], Tidy(Append(c, a), S)
  PROVE  /\ Tidy(Append(c, b), S \cup {q})
         /\ Full(Append(c, a), S) => Full(Append(c, b), S \cup {q})
<1> DEFINE A == Append(c, a)
           B == Append(c, b)
           n == Len(c) + 1
<1>1. /\ DOMAIN A = 1..n /\ DOMAIN B = 1..n /\ n \in 1..n /\ A[n] = a /\ B[n] = b
      /\ \A i \in 1..n : i # n => A[i] = B[i] /\ A[i] \in Window
  OBVIOUS
<1>2. /\ \A r \in Tasks : b.rows[r] = IF r = q THEN a.rows[r] + 1 ELSE a.rows[r]
      /\ \A r \in Tasks : a.rows[r] \in Nat
  BY DEF Window
<1>3. Tidy(A, S) OBVIOUS
<1> HIDE DEF A, B, n
<1>4. \A i \in 1..n : A[i].rows[q] = 0
  <2>1. \A i \in 1..n : A[i] \in Window BY <1>1
  <2>2. \A i \in 1..n : A[i].rows[q] \in Nat BY <2>1 DEF Window
  <2>3. QED BY <1>1, <1>3, <2>2 DEF Tidy
<1>5. \A r \in Tasks, i \in 1..n : r # q => B[i].rows[r] = A[i].rows[r]
  BY <1>1, <1>2
<1>6. \A i \in 1..n : B[i].rows[q] = IF i = n THEN 1 ELSE 0
  BY <1>1, <1>2, <1>4
<1>7. Tidy(B, S \cup {q}) BY <1>1, <1>3, <1>5, <1>6 DEF Tidy
<1>8. Full(A, S) => Full(B, S \cup {q}) BY <1>1, <1>5, <1>6 DEF Full
<1>9. QED BY <1>7, <1>8 DEF A, B

LEMMA WindowAdded ==
  ASSUME NEW S \in SUBSET Tasks, NEW c \in Seq(Window), NEW a \in Window,
         \A r \in Tasks : a.rows[r] = 0, Tidy(c, S)
  PROVE  /\ Tidy(Append(c, a), S)
         /\ c # <<>> => Tidy(Append(Tail(c), a), S)
         /\ Full(c, S) => Full(Append(c, a), S)
<1>1. ASSUME NEW d \in Seq(Window), Tidy(d, S) PROVE Tidy(Append(d, a), S)
  <2> DEFINE A == Append(d, a)
  <2>1. /\ DOMAIN d = 1..Len(d) /\ DOMAIN A = 1..(Len(d) + 1) /\ Len(d) \in Nat
        /\ \A i \in 1..Len(d) : A[i] = d[i]
        /\ A[Len(d) + 1] = a
    OBVIOUS
  <2>2. \A i \in DOMAIN A : (i \in DOMAIN d /\ A[i] = d[i]) \/ A[i] = a BY <2>1
  <2> HIDE DEF A
  <2>3. \A i \in DOMAIN A, r \in Tasks : A[i].rows[r] > 0 => i \in DOMAIN d /\ A[i] = d[i] BY <2>2
  <2>4. Tidy(A, S) BY <1>1, <2>3 DEF Tidy
  <2>5. QED BY <2>4 DEF A
<1>2. ASSUME c # <<>> PROVE Tail(c) \in Seq(Window) /\ Tidy(Tail(c), S)
  <2> DEFINE B == Tail(c)
  <2>1. /\ B \in Seq(Window) /\ DOMAIN c = 1..Len(c) /\ DOMAIN B = 1..(Len(c) - 1) /\ Len(c) \in Nat
        /\ \A i \in 1..(Len(c) - 1) : B[i] = c[i + 1]
    BY <1>2
  <2>2. \A i \in DOMAIN B : i + 1 \in DOMAIN c /\ B[i] = c[i + 1] BY <2>1
  <2>3. \A i, j \in DOMAIN B : i + 1 = j + 1 => i = j BY <2>1
  <2> HIDE DEF B
  <2>4. Tidy(B, S) BY <2>2, <2>3 DEF Tidy
  <2>5. QED BY <2>1, <2>4 DEF B
<1>3. ASSUME Full(c, S) PROVE Full(Append(c, a), S)
  <2> DEFINE A == Append(c, a)
  <2>1. \A i \in DOMAIN c : i \in DOMAIN A /\ A[i] = c[i] OBVIOUS
  <2> HIDE DEF A
  <2>2. Full(A, S) BY <1>3, <2>1 DEF Full
  <2>3. QED BY <2>2 DEF A
<1>4. QED BY <1>1, <1>2, <1>3

Merged == {r \in Tasks : Beyond(r, 5)}

Rolls ==
  /\ open \in Window /\ past \in Seq(Window)
  /\ Tidy(Append(past, open), Merged)
  /\ Len(past) < Windows => Full(Append(past, open), Merged)

\* What a recorder holds at the steps that use it.
Holds ==
  \A w \in D!Recorders :
    /\ doing[w].step = 3 => doing[w].held < head
    /\ doing[w].step = 5 => doing[w].held \in 0..Clock

LEMMA RollsStay ==
  ASSUME D!TypeOK, CollectorTyped, Places, Rolls, Gathers
  PROVE  Rolls'
<1>1. open' = open /\ past' = past
  BY DEF Gathers, Calm, D!collectorVars, Hands, D!Submit, D!Notify, D!Take, D!Tick
<1>2. Merged' = Merged
  <2>1. 5 \in 1..5 OBVIOUS
  <2>2. \A r \in Tasks : Beyond(r, 5)' <=> Beyond(r, 5) BY <2>1, BeyondStays
  <2>3. QED BY <2>2 DEF Merged
<1>3. QED BY <1>1, <1>2 DEF Rolls

LEMMA RollsMove ==
  ASSUME D!TypeOK, CollectorTyped, Places, Rolls, Holds, NEW w \in D!Recorders, Writing(w), D!Writes(w)
  PROVE  Rolls'
<1> DEFINE q == doing[w].item
           h == doing[w].held
           fresh == [start |-> h, rows |-> D!Empty]
           closed == Append(past, open)
<1>1. /\ q \in Tasks /\ doing[w].step \in 1..5
      /\ \A k \in 1..5 : k >= doing[w].step => ~Beyond(q, k)
      /\ \A r \in Tasks, k \in 1..5 : Beyond(r, k)' <=> Beyond(r, k) \/ (r = q /\ k = doing[w].step)
  BY BeyondMoves
<1>2. 5 \in 1..5 /\ 5 >= 5 OBVIOUS
<1>3. \A r \in Tasks : Beyond(r, 5)' <=> Beyond(r, 5) \/ (r = q /\ doing[w].step = 5) BY <1>1, <1>2
<1>4. WritingStep(w) BY WriteSteps
<1>5. CASE doing[w].step # 5
  <2>1. open' = open /\ past' = past BY <1>4, <1>5 DEF WritingStep
  <2>2. Merged' = Merged BY <1>3, <1>5 DEF Merged
  <2>3. QED BY <2>1, <2>2 DEF Rolls
<1>6. CASE doing[w].step = 5
  <2>1. /\ open' = [D!Rolled(h)[1] EXCEPT !.rows[q] = @ + 1]
        /\ past' = D!Rolled(h)[2]
    BY <1>4, <1>6 DEF WritingStep
  <2>2. Merged' = Merged \cup {q} /\ q \notin Merged /\ Merged \in SUBSET Tasks BY <1>1, <1>2, <1>3, <1>6 DEF Merged
  <2>3. h \in Nat BY DEF CollectorTyped, DoingType
  <2>4. fresh \in Window /\ \A r \in Tasks : fresh.rows[r] = 0 BY <2>3 DEF Window, D!Empty
  <2>5. \A v \in Window : /\ [v EXCEPT !.rows[q] = @ + 1] \in Window
                          /\ [v EXCEPT !.rows[q] = @ + 1].rows = [v.rows EXCEPT ![q] = @ + 1]
    BY <1>1 DEF Window
  <2>6. open \in Window /\ past \in Seq(Window) /\ closed \in Seq(Window) /\ Tidy(closed, Merged) /\ closed # <<>>
        /\ (Len(past) < Windows => Full(closed, Merged)) /\ Len(closed) = Len(past) + 1
        /\ Windows \in Nat /\ Len(past) \in Nat
    BY DeliveryFacts DEF Rolls
  <2>7. Append(past, open) = closed OBVIOUS
  <2> HIDE DEF q, h, fresh, closed
  <2>8. CASE open.start = h
    <3>1. past' = past /\ open' = [open EXCEPT !.rows[q] = @ + 1] BY <2>1, <2>8 DEF D!Rolled
    <3>2. open' \in Window /\ open'.rows = [open.rows EXCEPT ![q] = @ + 1] BY <2>5, <2>6, <3>1
    <3>3. /\ Tidy(Append(past, open'), Merged \cup {q})
          /\ Full(Append(past, open), Merged) => Full(Append(past, open'), Merged \cup {q})
      BY <1>1, <2>2, <2>6, <2>7, <3>2, RowAdded
    <3>4. QED BY <2>2, <2>6, <2>7, <3>1, <3>2, <3>3 DEF Rolls
  <2>9. CASE open.start # h
    <3>1. /\ open' = [fresh EXCEPT !.rows[q] = @ + 1]
          /\ past' = IF Len(closed) > Windows THEN Tail(closed) ELSE closed
      BY <2>1, <2>9 DEF D!Rolled, fresh, closed
    <3>2. open' \in Window /\ open'.rows = [fresh.rows EXCEPT ![q] = @ + 1] BY <2>4, <2>5, <3>1
    <3>3. /\ Tidy(Append(closed, fresh), Merged) /\ Tidy(Append(Tail(closed), fresh), Merged)
          /\ Full(closed, Merged) => Full(Append(closed, fresh), Merged)
      BY <2>2, <2>4, <2>6, WindowAdded
    <3>4. past' \in Seq(Window) /\ Tidy(Append(past', fresh), Merged)
      BY <2>6, <3>1, <3>3
    <3>5. Len(past') < Windows => Full(Append(past', fresh), Merged)
      BY <2>6, <3>1, <3>3
    <3>6. /\ Tidy(Append(past', open'), Merged \cup {q})
          /\ Full(Append(past', fresh), Merged) => Full(Append(past', open'), Merged \cup {q})
      BY <1>1, <2>2, <2>4, <3>2, <3>4, RowAdded
    <3>7. QED BY <2>2, <3>2, <3>4, <3>5, <3>6 DEF Rolls
  <2>10. QED BY <2>8, <2>9
<1>7. QED BY <1>5, <1>6

LEMMA RollsAgree ==
  ASSUME CollectorTyped, Rolls
  PROVE  D!InOneWindow
<1>1. \A r \in Tasks : D!Written(r) <=> r \in Merged BY BeyondIsBehind DEF Merged
<1>2. D!AllWindows = Append(past, open) BY DEF D!AllWindows
<1>3. \A r \in Tasks : D!Having(r) = {i \in DOMAIN Append(past, open) : Append(past, open)[i].rows[r] > 0}
  BY <1>2 DEF D!Having
<1>4. ASSUME NEW r \in Tasks, NEW i \in D!Having(r)
      PROVE  D!Having(r) = {i} /\ D!AllWindows[i].rows[r] = 1
  BY <1>2, <1>3, <1>4 DEF Rolls, Tidy
<1>5. ASSUME NEW r \in Tasks, Len(past) < Windows
      PROVE  D!Having(r) # {} <=> D!Written(r)
  BY <1>1, <1>3, <1>5 DEF Rolls, Tidy, Full
<1>6. QED BY <1>4, <1>5 DEF D!InOneWindow

-----------------------------------------------------------------------------
(* The ring *)

Numbered == \A i \in DOMAIN ring : ring[i].seq < head

LEMMA RingEntries ==
  ASSUME CollectorTyped
  PROVE  /\ ring \in Seq([seq : Nat, item : Tasks]) /\ DOMAIN ring = 1..Len(ring) /\ Len(ring) \in Nat
         /\ \A i \in DOMAIN ring : ring[i] \in [seq : Nat, item : Tasks] /\ ring[i].seq \in Nat
<1> DEFINE E == [seq : Nat, item : Tasks]
<1>1. ring \in Seq(E) BY DEF CollectorTyped
<1>2. \A e \in E : e.seq \in Nat OBVIOUS
<1> HIDE DEF E
<1>3. DOMAIN ring = 1..Len(ring) /\ Len(ring) \in Nat /\ \A i \in 1..Len(ring) : ring[i] \in E BY <1>1
<1>4. QED BY <1>1, <1>2, <1>3 DEF E

LEMMA NumberedStep ==
  ASSUME D!TypeOK, CollectorTyped, Numbered, Holds,
         Gathers \/ \E w \in D!Recorders : Writing(w) /\ D!Writes(w)
  PROVE  Numbered'
<1>1. CASE Gathers
  <2>1. ring' = ring /\ head' = head
    BY <1>1 DEF Gathers, Calm, D!collectorVars, Hands, D!Submit, D!Notify, D!Take, D!Tick
  <2>2. QED BY <2>1 DEF Numbered
<1>2. ASSUME NEW w \in D!Recorders, Writing(w), D!Writes(w) PROVE Numbered'
  <2>1. WritingStep(w) BY <1>2, WriteSteps
  <2>2. /\ ring \in Seq([seq : Nat, item : Tasks]) /\ head \in Nat
        /\ \A i \in DOMAIN ring : ring[i].seq \in Nat
    BY RingEntries DEF CollectorTyped
  <2>3. CASE doing[w].step = 3
    <3> DEFINE kept == IF Len(ring) < Ring THEN ring ELSE Tail(ring)
               e == [seq |-> doing[w].held, item |-> doing[w].item]
    <3>1. head' = head /\ ring' = Append(kept, e) BY <2>1, <2>3 DEF WritingStep
    <3>2. e.seq < head BY <1>2, <2>3 DEF Holds
    <3>3. Len(ring) >= Ring => ring # <<>> BY DeliveryFacts, <2>2
    <3>4. kept \in Seq([seq : Nat, item : Tasks]) /\ \A i \in DOMAIN kept : \E j \in DOMAIN ring : kept[i] = ring[j]
      <4>1. CASE Len(ring) < Ring BY <2>2, <4>1
      <4>2. CASE ~(Len(ring) < Ring)
        <5>1. Len(ring) \in Nat /\ Ring \in Nat BY <2>2, DeliveryFacts
        <5>2. ring # <<>> BY <3>3, <4>2, <5>1
        <5>3. /\ DOMAIN Tail(ring) = 1..(Len(ring) - 1) /\ DOMAIN ring = 1..Len(ring)
              /\ \A i \in 1..(Len(ring) - 1) : Tail(ring)[i] = ring[i + 1]
              /\ Tail(ring) \in Seq([seq : Nat, item : Tasks])
          BY <2>2, <5>2
        <5>4. \A i \in DOMAIN Tail(ring) : i + 1 \in DOMAIN ring BY <5>1, <5>3
        <5>5. kept = Tail(ring) BY <4>2
        <5> HIDE DEF kept
        <5>6. QED BY <5>3, <5>4, <5>5
      <4>3. QED BY <4>1, <4>2
    <3> HIDE DEF kept, e
    <3>5. \A i \in DOMAIN kept : kept[i].seq < head BY <3>4 DEF Numbered
    <3>6. \A i \in DOMAIN ring' : (i \in DOMAIN kept /\ ring'[i] = kept[i]) \/ ring'[i] = e BY <3>1, <3>4
    <3>7. QED BY <3>1, <3>2, <3>5, <3>6 DEF Numbered
  <2>4. CASE doing[w].step # 3
    <3>1. ring' = ring /\ head' \in {head, head + 1} BY <2>1, <2>4 DEF WritingStep
    <3>2. QED BY <2>2, <3>1 DEF Numbered
  <2>5. QED BY <2>3, <2>4
<1>3. QED BY <1>1, <1>2

LEMMA HighestIs ==
  ASSUME NEW n \in Nat
  PROVE  D!Max((1..n) \cup {0}) = n
<1> DEFINE S == (1..n) \cup {0}
<1>1. n \in S /\ \A y \in S : n >= y OBVIOUS
<1>2. \A x \in S : (\A y \in S : x >= y) => x = n
  <2> SUFFICES ASSUME NEW x \in S, \A y \in S : x >= y PROVE x = n OBVIOUS
  <2>1. x >= n /\ n >= x /\ x \in Nat BY <1>1
  <2>2. QED BY <2>1
<1> HIDE DEF S
<1>3. D!Max(S) = n BY <1>1, <1>2 DEF D!Max
<1>4. QED BY <1>3 DEF S

LEMMA NumberedAgrees ==
  ASSUME CollectorTyped, Numbered
  PROVE  D!PagesComplete
<1> SUFFICES ASSUME D!InOrder PROVE D!Shown(head) = Len(ring) /\ \A i \in DOMAIN ring : D!Shown(ring[i].seq) = i - 1
  BY DEF D!PagesComplete
<1>1. /\ DOMAIN ring = 1..Len(ring) /\ Len(ring) \in Nat
      /\ \A i \in DOMAIN ring : ring[i].seq \in Nat
  BY RingEntries
<1>2. D!Page(head) = 1..Len(ring) BY <1>1 DEF D!Page, Numbered
<1>3. ASSUME NEW i \in DOMAIN ring PROVE D!Page(ring[i].seq) = 1..(i - 1)
  <2>1. ASSUME NEW j \in DOMAIN ring PROVE ring[j].seq < ring[i].seq <=> j < i
    <3>1. j \in Nat /\ i \in Nat /\ ring[j].seq \in Nat /\ ring[i].seq \in Nat BY <1>1
    <3>2. CASE j < i BY <3>2 DEF D!InOrder
    <3>3. CASE i < j
      <4>1. ring[i].seq < ring[j].seq BY <3>3 DEF D!InOrder
      <4>2. QED BY <3>1, <3>3, <4>1
    <3>4. CASE i = j BY <3>1, <3>4
    <3>5. QED BY <3>1, <3>2, <3>3, <3>4
  <2>2. \A j : j \in DOMAIN ring /\ j < i <=> j \in 1..(i - 1) BY <1>1
  <2>3. QED BY <2>1, <2>2 DEF D!Page
<1>4. \A i \in DOMAIN ring : i - 1 \in Nat BY <1>1
<1>5. D!Shown(head) = Len(ring) BY <1>1, <1>2, HighestIs DEF D!Shown
<1>6. \A i \in DOMAIN ring : D!Shown(ring[i].seq) = i - 1 BY <1>3, <1>4, HighestIs DEF D!Shown
<1>7. QED BY <1>5, <1>6

LEMMA HoldsStep ==
  ASSUME D!TypeOK, CollectorTyped, Places, Holds,
         Gathers \/ \E w \in D!Recorders : Writing(w) /\ D!Writes(w)
  PROVE  Holds'
<1>1. CASE Gathers
  <2>1. head' = head
    BY <1>1 DEF Gathers, Calm, D!collectorVars, Hands, D!Submit, D!Notify, D!Take, D!Tick
  <2>2. \A w \in D!Recorders : doing'[w] = doing[w] \/ doing'[w].step = 1
    <3>1. doing' = doing \/ \E v \in D!Recorders : \E q : D!Begin(v, q)
      BY <1>1 DEF Gathers, Calm, D!collectorVars, Hands, D!Submit, D!Notify, D!Take, D!Tick, D!Recorders
    <3>2. QED BY <3>1 DEF D!Begin, CollectorTyped
  <2>3. QED BY <2>1, <2>2 DEF Holds
<1>2. ASSUME NEW w \in D!Recorders, Writing(w), D!Writes(w) PROVE Holds'
  <2>1. WritingStep(w) BY <1>2, WriteSteps
  <2>2. head \in Nat /\ now \in 0..Clock /\ \A v \in D!Recorders : doing[v].held \in Nat BY DEF CollectorTyped, DoingType
  <2>3. head' \in {head, head + 1} BY <2>1 DEF WritingStep
  <2>4. \A v \in D!Recorders \ {w} : doing'[v] = doing[v] BY <2>1 DEF WritingStep, Moves, CollectorTyped
  <2>5. /\ doing'[w].step = 3 => doing'[w].held < head'
        /\ doing'[w].step = 5 => doing'[w].held \in 0..Clock
    BY <2>1, <2>2, SMTT(20) DEF WritingStep, Moves, CollectorTyped, D!Idle
  <2>6. \A v \in D!Recorders \ {w} : doing'[v].step = 3 => doing'[v].held < head'
    BY <2>2, <2>3, <2>4 DEF Holds
  <2>7. QED BY <2>4, <2>5, <2>6 DEF Holds
<1>3. QED BY <1>1, <1>2

-----------------------------------------------------------------------------
(* Types *)

LEMMA CollectorTypesStep ==
  ASSUME D!TypeOK, CollectorTyped, Places, Rolls, Holds,
         Gathers \/ \E w \in D!Recorders : Writing(w) /\ D!Writes(w)
  PROVE  CollectorTyped'
<1> DEFINE Waits == Tasks \cup {D!Notice}
           Entry == [seq : Nat, item : Tasks]
<1>1. /\ queue \in Seq(Waits) /\ Len(queue) <= Queue /\ Len(queue) \in Nat
      /\ ring \in Seq(Entry) /\ Len(ring) <= Ring /\ Len(ring) \in Nat
      /\ doing \in [D!Recorders -> DoingType]
      /\ total \in Nat /\ successes \in Nat /\ head \in Nat /\ dropped \in Nat
      /\ now \in 0..Clock /\ notices \in 0..Notices
      /\ open.start \in 0..Clock /\ Len(past) <= Windows
  BY DEF CollectorTyped
<1>2. \A r \in Waits : [item |-> r, step |-> 1, held |-> 0] \in DoingType BY DEF DoingType
<1>3. \A r \in Waits : Append(queue, r) \in Seq(Waits) /\ Len(Append(queue, r)) = Len(queue) + 1
  <2> HIDE DEF Waits
  <2>1. QED BY <1>1
<1>a. ASSUME NEW r \in Waits, D!HasRoom, queue' = Append(queue, r) PROVE queue' \in Seq(Waits) /\ Len(queue') <= Queue
  <2>1. Len(queue) < Queue /\ Queue \in Nat BY <1>a, DeliveryFacts DEF D!HasRoom
  <2> HIDE DEF Waits
  <2>2. Len(queue) + 1 <= Queue BY <1>1, <2>1
  <2>3. QED BY <1>3, <1>a, <2>2
<1>4. CASE Calm BY <1>1, <1>4 DEF Calm, D!collectorVars, CollectorTyped
<1>5. ASSUME NEW r \in Tasks, D!Submit(r) PROVE CollectorTyped'
  <2>1. /\ UNCHANGED <<total, successes, head, ring, open, past, now, notices>>
        /\ \/ D!HasRoom /\ queue' = Append(queue, r) /\ UNCHANGED <<doing, dropped>>
           \/ dropped' = dropped + 1 /\ D!Begin(r, r) /\ UNCHANGED queue
    BY <1>5 DEF D!Submit
  <2>2. queue' \in Seq(Waits) /\ Len(queue') <= Queue
    BY <1>1, <1>a, <2>1
  <2>3. doing' \in [D!Recorders -> DoingType] BY <1>1, <1>2, <2>1 DEF D!Begin
  <2>4. dropped' \in Nat BY <1>1, <2>1
  <2>5. QED BY <1>1, <2>1, <2>2, <2>3, <2>4 DEF CollectorTyped
<1>6. CASE D!Notify
  <2>1. /\ UNCHANGED <<doing, total, successes, head, ring, open, past, now>>
        /\ notices' = notices + 1 /\ notices < Notices
        /\ \/ D!HasRoom /\ queue' = Append(queue, D!Notice) /\ UNCHANGED dropped
           \/ dropped' = dropped + 1 /\ UNCHANGED queue
    BY <1>6 DEF D!Notify
  <2>2. queue' \in Seq(Waits) /\ Len(queue') <= Queue
    BY <1>1, <1>a, <2>1
  <2>3. dropped' \in Nat /\ notices' \in 0..Notices BY <1>1, <2>1, DeliveryFacts
  <2>4. QED BY <1>1, <2>1, <2>2, <2>3 DEF CollectorTyped
<1>7. CASE D!Take
  <2>1. /\ UNCHANGED <<dropped, total, successes, head, ring, open, past, now, notices>>
        /\ queue # <<>> /\ queue' = Tail(queue)
        /\ doing' = doing \/ (Head(queue) # D!Notice /\ D!Begin(D!Worker, Head(queue)))
    BY <1>7 DEF D!Take
  <2>2. queue' \in Seq(Waits) /\ Len(queue') <= Queue /\ Head(queue) \in Waits
    <3> HIDE DEF Waits
    <3>1. Tail(queue) \in Seq(Waits) /\ Len(Tail(queue)) = Len(queue) - 1 /\ Head(queue) \in Waits BY <1>1, <2>1
    <3>2. QED BY <1>1, <2>1, <3>1, DeliveryFacts
  <2>3. doing' \in [D!Recorders -> DoingType] BY <1>1, <1>2, <2>1, <2>2 DEF D!Begin
  <2>4. QED BY <1>1, <2>1, <2>2, <2>3 DEF CollectorTyped
<1>8. CASE D!Tick
  <2>1. now' \in 0..Clock BY <1>1, <1>8, DeliveryFacts DEF D!Tick
  <2>2. QED BY <1>1, <1>8, <2>1 DEF D!Tick, CollectorTyped
<1>9. ASSUME NEW w \in D!Recorders, Writing(w), D!Writes(w) PROVE CollectorTyped'
  <2> DEFINE q == doing[w].item
             h == doing[w].held
  <2>1. WritingStep(w) BY <1>9, WriteSteps
  <2>2. q \in Tasks /\ h \in Nat /\ now \in Nat BY <1>1, <1>9 DEF Places, DoingType
  <2>3. \A n \in 0..5, x \in Nat : [item |-> q, step |-> n, held |-> x] \in DoingType BY <2>2 DEF DoingType
  <2>4. D!Idle \in DoingType BY DEF D!Idle, DoingType
  <2>5. /\ UNCHANGED <<queue, dropped, notices, now>>
        /\ doing' \in [D!Recorders -> DoingType]
        /\ total' \in Nat /\ successes' \in Nat /\ head' \in Nat
    <3>1. \E to \in DoingType : doing' = [doing EXCEPT ![w] = to]
      <4>1. 2 \in 0..5 /\ 3 \in 0..5 /\ 4 \in 0..5 /\ 5 \in 0..5 /\ 0 \in Nat OBVIOUS
      <4> HIDE DEF q
      <4>2. \E n \in 0..5, x \in Nat : doing' = [doing EXCEPT ![w] = [item |-> q, step |-> n, held |-> x]]
              \/ doing' = [doing EXCEPT ![w] = D!Idle]
        BY <1>1, <2>1, <2>2, <4>1 DEF WritingStep, Moves, q
      <4>3. QED BY <2>3, <2>4, <4>2
    <3>2. doing' \in [D!Recorders -> DoingType] BY <1>1, <3>1
    <3>3. UNCHANGED <<queue, dropped, notices, now>> BY <2>1 DEF WritingStep
    <3>4. total' \in {total, total + 1} /\ successes' \in {successes, successes + 1} /\ head' \in {head, head + 1}
      BY <2>1 DEF WritingStep
    <3>5. total' \in Nat /\ successes' \in Nat /\ head' \in Nat BY <1>1, <3>4
    <3>6. QED BY <3>2, <3>3, <3>5
  <2>6. ring' \in Seq(Entry) /\ Len(ring') <= Ring
    <3>1. [seq |-> h, item |-> q] \in Entry BY <2>2
    <3>2. ring' = ring \/ ring' = Append(IF Len(ring) < Ring THEN ring ELSE Tail(ring), [seq |-> h, item |-> q])
      BY <2>1 DEF WritingStep
    <3>3. Ring \in Nat \ {0} BY DeliveryFacts
    <3> HIDE DEF Entry
    <3>4. CASE Len(ring) < Ring /\ ring' # ring
      <4>1. ring' = Append(ring, [seq |-> h, item |-> q]) BY <3>2, <3>4
      <4>2. QED BY <1>1, <3>1, <3>3, <3>4, <4>1
    <3>5. CASE ~(Len(ring) < Ring) /\ ring' # ring
      <4>1. ring' = Append(Tail(ring), [seq |-> h, item |-> q]) BY <3>2, <3>5
      <4>2. ring # <<>> BY <1>1, <3>3, <3>5
      <4>3. Tail(ring) \in Seq(Entry) /\ Len(Tail(ring)) = Len(ring) - 1 BY <1>1, <4>2
      <4>4. QED BY <1>1, <3>1, <3>3, <4>1, <4>3
    <3>6. QED BY <1>1, <3>4, <3>5
  <2>7. open'.start \in 0..Clock /\ Len(past') <= Windows
    <3>1. \/ open' = open /\ past' = past
          \/ /\ h \in 0..Clock
             /\ open' = [D!Rolled(h)[1] EXCEPT !.rows[q] = @ + 1]
             /\ past' = D!Rolled(h)[2]
      BY <1>9, <2>1 DEF WritingStep, Holds
    <3>2. open \in Window /\ past \in Seq(Window) /\ Windows \in Nat BY DeliveryFacts DEF Rolls
    <3> DEFINE fresh == [start |-> h, rows |-> D!Empty]
               closed == Append(past, open)
    <3>3. fresh \in Window BY <2>2 DEF Window, D!Empty
    <3>4. \A v \in Window : [v EXCEPT !.rows[q] = @ + 1].start = v.start BY DEF Window
    <3>5. closed \in Seq(Window) /\ Len(closed) = Len(past) + 1 /\ Len(past) \in Nat /\ Len(Tail(closed)) = Len(past)
      <4> HIDE DEF closed
      <4>1. closed = Append(past, open) BY DEF closed
      <4>2. closed \in Seq(Window) /\ Len(closed) = Len(past) + 1 /\ Len(past) \in Nat /\ closed # <<>>
        BY <3>2, <4>1
      <4>3. Len(Tail(closed)) = Len(closed) - 1 BY <4>2
      <4>4. QED BY <4>2, <4>3
    <3>6. D!Rolled(h) = IF open.start = h THEN <<open, past>>
                        ELSE <<fresh, IF Len(closed) > Windows THEN Tail(closed) ELSE closed>>
      BY DEF D!Rolled
    <3>7. fresh.start = h OBVIOUS
    <3> HIDE DEF fresh, closed, h, q
    <3>8. CASE h \in 0..Clock /\ open' = [D!Rolled(h)[1] EXCEPT !.rows[q] = @ + 1] /\ past' = D!Rolled(h)[2]
      <4>1. CASE open.start = h
        <5>1. open' = [open EXCEPT !.rows[q] = @ + 1] /\ past' = past BY <3>6, <3>8, <4>1
        <5>2. QED BY <1>1, <3>2, <3>4, <5>1
      <4>2. CASE open.start # h
        <5>1. open' = [fresh EXCEPT !.rows[q] = @ + 1] /\ past' = IF Len(closed) > Windows THEN Tail(closed) ELSE closed
          BY <3>6, <3>8, <4>2
        <5>2. open'.start \in 0..Clock BY <3>3, <3>4, <3>7, <3>8, <5>1
        <5>3. Len(past') <= Windows BY <1>1, <3>2, <3>5, <5>1
        <5>4. QED BY <5>2, <5>3
      <4>3. QED BY <4>1, <4>2
    <3>9. QED BY <1>1, <3>1, <3>8
  <2>8. QED BY <1>1, <2>5, <2>6, <2>7 DEF CollectorTyped
<1>10. QED BY <1>4, <1>5, <1>6, <1>7, <1>8, <1>9 DEF Gathers, Hands

\* The types of the tasks' part.
TasksTyped ==
  /\ phase \in [Tasks -> D!Phases]
  /\ unread \in [Tasks -> 0..Channel]
  /\ gone \subseteq Tasks
  /\ seen \in [Tasks -> SUBSET {"output", "limit"}]
  /\ owed \in [Tasks -> Int]
  /\ told \in [Tasks -> Results \cup {"none"}]
  /\ outcome \in [Tasks -> Results \cup {"none"}]
  /\ attempt \in [Tasks -> 0..Retries]

LEMMA DeliveryTypes == D!TypeOK <=> CollectorTyped /\ TasksTyped
BY CollectorTypes DEF D!TypeOK, TasksTyped, Results

LEMMA TasksTypesStep ==
  ASSUME TasksTyped, NEW r \in Tasks, D!Task(r)
  PROVE  TasksTyped'
<1> USE DEF TasksTyped, D!GoTo, D!Took, D!Reported, D!Record, D!Phases, Results, D!Failed, D!Success
<1>a. D!Signals \subseteq SUBSET {"output", "limit"}
  BY DEF D!Signals, D!MessagesSignal, D!ChatSignal, D!LimitError
<1>b. Channel \in Nat \ {0} /\ Retries \in Nat \ {0} BY DeliveryFacts
<1>1. CASE \E way \in {"kernel", "straight"} : D!Arrive(r, way)
  BY <1>a, <1>b, <1>1 DEF D!Arrive
<1>2. CASE D!KernelRefuses(r)
  BY <1>a, <1>b, <1>2 DEF D!KernelRefuses
<1>3. CASE D!KernelAnswers(r)
  BY <1>a, <1>b, <1>3 DEF D!KernelAnswers
<1>4. CASE D!KernelStreams(r)
  BY <1>a, <1>b, <1>4 DEF D!KernelStreams
<1>5. CASE D!Abandon(r)
  BY <1>a, <1>b, <1>5 DEF D!Abandon
<1>6. CASE \E signal \in D!Signals : D!Chunk(r, signal)
  <2>1. PICK signal \in D!Signals : D!Chunk(r, signal) BY <1>6
  <2>2. seen[r] \cup signal \in SUBSET {"output", "limit"} BY <1>a
  <2>3. seen' \in [Tasks -> SUBSET {"output", "limit"}]
    <3> DEFINE V == SUBSET {"output", "limit"}
               x == seen[r] \cup signal
    <3>1. seen \in [Tasks -> V] /\ x \in V /\ seen' = [seen EXCEPT ![r] = x] BY <2>1, <2>2 DEF D!Chunk
    <3> HIDE DEF V, x
    <3>2. seen' \in [Tasks -> V] BY <3>1
    <3>3. QED BY <3>2 DEF V
  <2>4. QED BY <2>1, <2>3 DEF D!Chunk
<1>7. CASE \E limited \in BOOLEAN : D!StreamBreaks(r, limited)
  BY <1>a, <1>b, <1>7 DEF D!StreamBreaks, D!Settled
<1>8. CASE D!PushChunk(r)
  BY <1>a, <1>b, <1>8 DEF D!PushChunk
<1>9. CASE D!ClientLost(r)
  BY <1>a, <1>b, <1>9 DEF D!ClientLost, D!Settled
<1>10. CASE D!StreamEnds(r)
  BY <1>a, <1>b, <1>10 DEF D!StreamEnds, D!Settled, D!Ending
<1>11. CASE D!Unserved(r)
  BY <1>a, <1>b, <1>11 DEF D!Unserved
<1>12. CASE D!Dispatch(r)
  BY <1>a, <1>b, <1>12 DEF D!Dispatch
<1>13. CASE D!Resume(r)
  BY <1>a, <1>b, <1>13 DEF D!Resume
<1>14. CASE \E result \in {"rate_limited", "refused"}, retriable \in BOOLEAN : D!SendFails(r, result, retriable)
  BY <1>a, <1>b, <1>14 DEF D!SendFails, D!Retry
<1>15. CASE D!SendStreams(r)
  BY <1>a, <1>b, <1>15 DEF D!SendStreams
<1>16. CASE \E p \in {"body", "whole"} : D!SendAnswers(r, p)
  BY <1>a, <1>b, <1>16 DEF D!SendAnswers
<1>17. CASE D!BodyRead(r)
  BY <1>a, <1>b, <1>17 DEF D!BodyRead
<1>18. CASE D!BodyBreaks(r) \/ D!WholeBreaks(r)
  BY <1>a, <1>b, <1>18 DEF D!BodyBreaks, D!WholeBreaks
<1>19. CASE D!Read(r) \/ D!Leave(r)
  BY <1>a, <1>b, <1>19 DEF D!Read, D!Leave
<1>20. QED
  BY <1>1, <1>2, <1>3, <1>4, <1>5, <1>6, <1>7, <1>8, <1>9, <1>10, <1>11, <1>12, <1>13, <1>14, <1>15, <1>16, <1>17, <1>18, <1>19 DEF D!Task

-----------------------------------------------------------------------------
(* Leases *)

\* A task owes a report as long as it holds a lease, and what it has told by
\* each phase.
Owing(r) ==
  /\ phase[r] \in D!Holding => owed[r] = 1
  /\ phase[r] \notin D!Holding \cup {"abandoned"} => owed[r] = 0
  /\ phase[r] = "abandoned" => owed[r] \in 0..1
  /\ phase[r] \in {"idle", "kernel", "stream", "push"} => told[r] = "none"
  /\ phase[r] \in {"body", "whole"} => told[r] = D!Success
  /\ phase[r] = "recorded" /\ told[r] # "none" =>
       \/ told[r] = outcome[r]
       \/ told[r] = "rate_limited" /\ outcome[r] = "stream_error"
       \/ told[r] = D!Success /\ outcome[r] = "unread"

LEMMA OwingStep ==
  ASSUME TasksTyped, NEW r \in Tasks, D!Task(r), Owing(r)
  PROVE  Owing(r)'
<1> USE DEF Owing, TasksTyped, D!Holding, D!GoTo, D!Took, D!Reported, D!Record, D!Success
<1>1. CASE \E way \in {"kernel", "straight"} : D!Arrive(r, way)
  BY <1>1 DEF D!Arrive
<1>2. CASE D!KernelRefuses(r)
  BY <1>2 DEF D!KernelRefuses
<1>3. CASE D!KernelAnswers(r)
  BY <1>3 DEF D!KernelAnswers
<1>4. CASE D!KernelStreams(r)
  BY <1>4 DEF D!KernelStreams
<1>5. CASE D!Abandon(r)
  BY <1>5 DEF D!Abandon
<1>6. CASE \E signal \in D!Signals : D!Chunk(r, signal)
  BY <1>6 DEF D!Chunk
<1>7. CASE \E limited \in BOOLEAN : D!StreamBreaks(r, limited)
  BY <1>7 DEF D!StreamBreaks, D!Settled
<1>8. CASE D!PushChunk(r)
  BY <1>8 DEF D!PushChunk
<1>9. CASE D!ClientLost(r)
  BY <1>9 DEF D!ClientLost, D!Settled
<1>10. CASE D!StreamEnds(r)
  BY <1>10 DEF D!StreamEnds, D!Settled, D!Ending
<1>11. CASE D!Unserved(r)
  BY <1>11 DEF D!Unserved
<1>12. CASE D!Dispatch(r)
  BY <1>12 DEF D!Dispatch
<1>13. CASE D!Resume(r)
  BY <1>13 DEF D!Resume
<1>14. CASE \E result \in {"rate_limited", "refused"}, retriable \in BOOLEAN : D!SendFails(r, result, retriable)
  BY <1>14 DEF D!SendFails, D!Retry
<1>15. CASE D!SendStreams(r)
  BY <1>15 DEF D!SendStreams
<1>16. CASE \E p \in {"body", "whole"} : D!SendAnswers(r, p)
  BY <1>16 DEF D!SendAnswers
<1>17. CASE D!BodyRead(r)
  BY <1>17 DEF D!BodyRead
<1>18. CASE D!BodyBreaks(r) \/ D!WholeBreaks(r)
  BY <1>18 DEF D!BodyBreaks, D!WholeBreaks
<1>19. CASE D!Read(r) \/ D!Leave(r)
  BY <1>19 DEF D!Read, D!Leave
<1>20. QED
  BY <1>1, <1>2, <1>3, <1>4, <1>5, <1>6, <1>7, <1>8, <1>9, <1>10, <1>11, <1>12, <1>13, <1>14, <1>15, <1>16, <1>17, <1>18, <1>19 DEF D!Task

LEMMA OthersOwe ==
  ASSUME TasksTyped, NEW r \in Tasks, D!Task(r), NEW q \in Tasks \ {r}, Owing(q)
  PROVE  Owing(q)'
<1>0. SUFFICES phase'[q] = phase[q] /\ owed'[q] = owed[q] /\ told'[q] = told[q] /\ outcome'[q] = outcome[q]
  BY DEF Owing
<1> USE DEF TasksTyped, D!GoTo, D!Took, D!Reported, D!Record
<1>1. CASE \E way \in {"kernel", "straight"} : D!Arrive(r, way)
  BY <1>1 DEF D!Arrive
<1>2. CASE D!KernelRefuses(r)
  BY <1>2 DEF D!KernelRefuses
<1>3. CASE D!KernelAnswers(r)
  BY <1>3 DEF D!KernelAnswers
<1>4. CASE D!KernelStreams(r)
  BY <1>4 DEF D!KernelStreams
<1>5. CASE D!Abandon(r)
  BY <1>5 DEF D!Abandon
<1>6. CASE \E signal \in D!Signals : D!Chunk(r, signal)
  BY <1>6 DEF D!Chunk
<1>7. CASE \E limited \in BOOLEAN : D!StreamBreaks(r, limited)
  BY <1>7 DEF D!StreamBreaks, D!Settled
<1>8. CASE D!PushChunk(r)
  BY <1>8 DEF D!PushChunk
<1>9. CASE D!ClientLost(r)
  BY <1>9 DEF D!ClientLost, D!Settled
<1>10. CASE D!StreamEnds(r)
  BY <1>10 DEF D!StreamEnds, D!Settled, D!Ending
<1>11. CASE D!Unserved(r)
  BY <1>11 DEF D!Unserved
<1>12. CASE D!Dispatch(r)
  BY <1>12 DEF D!Dispatch
<1>13. CASE D!Resume(r)
  BY <1>13 DEF D!Resume
<1>14. CASE \E result \in {"rate_limited", "refused"}, retriable \in BOOLEAN : D!SendFails(r, result, retriable)
  BY <1>14 DEF D!SendFails, D!Retry
<1>15. CASE D!SendStreams(r)
  BY <1>15 DEF D!SendStreams
<1>16. CASE \E p \in {"body", "whole"} : D!SendAnswers(r, p)
  BY <1>16 DEF D!SendAnswers
<1>17. CASE D!BodyRead(r)
  BY <1>17 DEF D!BodyRead
<1>18. CASE D!BodyBreaks(r) \/ D!WholeBreaks(r)
  BY <1>18 DEF D!BodyBreaks, D!WholeBreaks
<1>19. CASE D!Read(r) \/ D!Leave(r)
  BY <1>19 DEF D!Read, D!Leave
<1>20. QED
  BY <1>1, <1>2, <1>3, <1>4, <1>5, <1>6, <1>7, <1>8, <1>9, <1>10, <1>11, <1>12, <1>13, <1>14, <1>15, <1>16, <1>17, <1>18, <1>19 DEF D!Task

\* Why AnswersAccounted holds: each record is in one place (Places), what the
\* counters, the windows and the ring have of it is how far its writing is
\* (Tallies, Rolls, Numbered, with what a recorder holds between two steps), and a
\* task's phase says what it owes (Owing).
DeliveryInv ==
  /\ CollectorTyped /\ TasksTyped
  /\ Places /\ Holds /\ Tallies /\ Rolls /\ Numbered
  /\ \A r \in Tasks : Owing(r)

LEMMA DeliveryInit == D!Init => DeliveryInv
<1> SUFFICES ASSUME D!Init PROVE DeliveryInv OBVIOUS
<1>1. /\ queue = <<>> /\ ring = <<>> /\ past = <<>>
      /\ dropped = 0 /\ total = 0 /\ successes = 0 /\ head = 0 /\ now = 0 /\ notices = 0
      /\ doing = [w \in D!Recorders |-> D!Idle]
      /\ open = [start |-> 0, rows |-> D!Empty]
      /\ phase = [r \in Tasks |-> "idle"]
  BY DEF D!Init, D!CollectorInit
<1>2. D!Idle \in DoingType /\ D!Idle.step = 0 BY DEF D!Idle, DoingType
<1>3. \A r \in Tasks : ~Handed(r) BY <1>1 DEF Handed
<1>4. \A w \in D!Recorders : doing[w].step = 0 /\ ~Writing(w) BY <1>1, <1>2 DEF Writing
<1>5. \A r \in Tasks, k \in 1..5 : ~Beyond(r, k) BY <1>3 DEF Beyond
<1>6. CollectorTyped
  <2>1. \A S : <<>> \in Seq(S) OBVIOUS
  <2>2. queue \in Seq(Tasks \cup {D!Notice}) /\ ring \in Seq([seq : Nat, item : Tasks])
    <3>1. queue = <<>> /\ ring = <<>> BY <1>1
    <3>2. QED BY <2>1, <3>1
  <2>3. Len(queue) = 0 /\ Len(ring) = 0 /\ Len(past) = 0 BY <1>1
  <2>4. doing \in [D!Recorders -> DoingType]
    <3>1. doing = [w \in D!Recorders |-> D!Idle] BY <1>1
    <3>2. QED BY <1>2, <3>1
  <2>5. open.start = 0 BY <1>1
  <2>6. dropped = 0 /\ total = 0 /\ successes = 0 /\ head = 0 /\ now = 0 /\ notices = 0 BY <1>1
  <2>7. 0 \in 0..Clock /\ 0 \in 0..Notices /\ 0 <= Queue /\ 0 <= Ring /\ 0 <= Windows BY DeliveryFacts
  <2>8. /\ Len(queue) <= Queue /\ Len(ring) <= Ring /\ Len(past) <= Windows
        /\ total \in Nat /\ successes \in Nat /\ head \in Nat /\ dropped \in Nat
        /\ now \in 0..Clock /\ notices \in 0..Notices /\ open.start \in 0..Clock
    BY <2>3, <2>5, <2>6, <2>7
  <2>9. QED BY <2>2, <2>4, <2>8 DEF CollectorTyped
<1>7. TasksTyped BY DeliveryFacts DEF D!Init, TasksTyped, D!Phases
<1>8. Places
  <2>1. DOMAIN queue = {} BY <1>1
  <2>2. Tasks \subseteq D!Recorders BY DEF D!Recorders
  <2>3. QED BY <1>4, <2>1, <2>2 DEF Places
<1>9. Holds BY <1>4 DEF Holds
<1>10. Tallies
  <2>1. 1 \in 1..5 /\ 2 \in 1..5 OBVIOUS
  <2>2. /\ {r \in Tasks : Beyond(r, 1)} = {} /\ {r \in Tasks : Beyond(r, 2)} = {}
        /\ {r \in Tasks : Beyond(r, 1) /\ outcome[r] \in D!Status200} = {}
    BY <1>5, <2>1
  <2>3. Cardinality({}) = 0 BY FS_EmptySet
  <2>4. QED BY <1>1, <2>2, <2>3 DEF Tallies
<1>11. Rolls
  <2>1. open \in Window /\ \A r \in Tasks : open.rows[r] = 0 BY <1>1 DEF Window, D!Empty
  <2>2. 5 \in 1..5 OBVIOUS
  <2>3. Merged = {} BY <1>5, <2>2 DEF Merged
  <2>4. past \in Seq(Window) /\ Append(past, open) = <<open>> BY <1>1
  <2>5. Tidy(<<open>>, Merged) /\ Full(<<open>>, Merged) BY <2>1, <2>3 DEF Tidy, Full
  <2>6. QED BY <2>1, <2>4, <2>5 DEF Rolls
<1>12. Numbered BY <1>1 DEF Numbered
<1>13. \A r \in Tasks : Owing(r) BY DEF Owing, D!Init, D!Holding
<1>14. QED BY <1>6, <1>7, <1>8, <1>9, <1>10, <1>11, <1>12, <1>13 DEF DeliveryInv

LEMMA DeliveryStep == DeliveryInv /\ [D!Next]_D!vars => DeliveryInv'
<1> SUFFICES ASSUME DeliveryInv, [D!Next]_D!vars PROVE DeliveryInv' OBVIOUS
<1>1. /\ D!TypeOK /\ CollectorTyped /\ TasksTyped
      /\ Places /\ Holds /\ Tallies /\ Rolls /\ Numbered
      /\ \A r \in Tasks : Owing(r)
  BY DeliveryTypes DEF DeliveryInv
<1>2. Gathers \/ \E w \in D!Recorders : Writing(w) /\ D!Writes(w) BY <1>1, DeliverySteps
<1>3. CollectorTyped' BY <1>1, <1>2, CollectorTypesStep
<1>4. TasksTyped' /\ \A r \in Tasks : Owing(r)'
  <2>1. CASE \E r \in Tasks : D!Task(r) BY <1>1, <2>1, TasksTypesStep, OwingStep, OthersOwe
  <2>2. CASE D!Ours
    BY <1>1, <2>2 DEF D!Ours, TasksTyped, Owing
  <2>3. D!Telemetry \/ UNCHANGED D!vars => D!Ours BY DEF D!Telemetry, D!Writes, D!vars, D!Ours
  <2>4. QED BY <2>1, <2>2, <2>3 DEF D!Next
<1>5. Places' BY <1>1, <1>2, PlacesStep
<1>6. Holds' BY <1>1, <1>2, HoldsStep
<1>7. Tallies' BY <1>1, <1>2, TalliesStay, TalliesMove
<1>8. Rolls' BY <1>1, <1>2, RollsStay, RollsMove
<1>9. Numbered' BY <1>1, <1>2, NumberedStep
<1>10. QED BY <1>3, <1>4, <1>5, <1>6, <1>7, <1>8, <1>9 DEF DeliveryInv

LEMMA DeliveryInvariant == D!Spec => []DeliveryInv
BY DeliveryInit, DeliveryStep, PTL DEF D!Spec

\* Every answer is recorded once, whether its record found room in the queue or
\* its task had to write it beside the worker, and agrees with what was
\* reported of its lease, unless a stream broke on a rate limit or the body of
\* what was to be a stream could not be read (async_collector.rs record_request, default.rs,
\* aggregator.rs, ring_buffer.rs; provider.rs metered_stream_response).
THEOREM AnswersAreAccounted == D!Spec => []AnswersAccounted
<1>1. DeliveryInv => AnswersAccounted
  <2> SUFFICES ASSUME DeliveryInv PROVE AnswersAccounted OBVIOUS
  <2>1. /\ D!TypeOK /\ CollectorTyped /\ Places /\ Tallies /\ Rolls /\ Numbered
        /\ \A r \in Tasks : Owing(r)
    BY DeliveryTypes DEF DeliveryInv
  <2>2. D!CountersAgree BY <2>1, TalliesAgree
  <2>3. D!InOneWindow BY <2>1, RollsAgree
  <2>4. D!PagesComplete BY <2>1, NumberedAgrees
  <2>5. D!LeasesReported BY <2>1 DEF D!LeasesReported, Owing, D!Holding
  <2>6. QED BY <2>2, <2>3, <2>4, <2>5 DEF AnswersAccounted, D!AnswersAccounted
<1>2. QED BY <1>1, DeliveryInvariant, PTL

LEMMA DeliveryTyping == D!Spec => []D!TypeOK
<1>1. DeliveryInv => D!TypeOK BY DeliveryTypes DEF DeliveryInv
<1>2. QED BY <1>1, DeliveryInvariant, PTL

-----------------------------------------------------------------------------
(* Induction over a set, from the well-foundedness of < *)

(* A set of naturals has a least element. *)
LEMMA Least ==
  ASSUME NEW T \in SUBSET Nat, T # {}
  PROVE  \E n \in T : \A m \in T : n <= m
<1>1. PICK n \in T : \A m \in T : ~(<<m, n>> \in OpToRel(<, Nat)) BY NatLessThanWellFounded, WFMin
<1>2. \A m \in T : ~(m < n) BY <1>1 DEF OpToRel
<1>3. QED BY <1>2

(* Induction, for a set *)
LEMMA Inductive ==
  ASSUME NEW T \in SUBSET Nat, 0 \in T, \A n \in T : n + 1 \in T
  PROVE  T = Nat
<1> SUFFICES ASSUME Nat \ T # {} PROVE FALSE
  OBVIOUS
<1>1. PICK n \in Nat \ T : \A m \in Nat \ T : n <= m
  BY Least
<1>2. n # 0 /\ n - 1 \in Nat
  BY <1>1
<1>3. n - 1 \in T
  BY <1>1, <1>2
<1> QED
  BY <1>1, <1>2, <1>3

-----------------------------------------------------------------------------
(* Concatenation of a sequence of sequences *)

Flattens(f, n, ss) == f = [i \in 1..n |-> IF i = 1 THEN ss[i] ELSE f[i - 1] \o ss[i]]

LEMMA FlattensAt ==
  ASSUME NEW ss, NEW n, NEW f, Flattens(f, n, ss), NEW i \in 1..n
  PROVE  f[i] = IF i = 1 THEN ss[i] ELSE f[i - 1] \o ss[i]
BY DEF Flattens

LEMMA FlattenGrows ==
  ASSUME NEW S, NEW ss \in Seq(Seq(S)), NEW n \in Nat, n + 1 <= Len(ss),
         NEW f \in [1..n -> Seq(S)], Flattens(f, n, ss)
  PROVE  \E g \in [1..n + 1 -> Seq(S)] : Flattens(g, n + 1, ss)
<1> DEFINE g == [i \in 1..n + 1 |-> IF i = 1 THEN ss[i] ELSE f[i - 1] \o ss[i]]
<1>1. ASSUME NEW i \in 1..n PROVE f[i] = IF i = 1 THEN ss[i] ELSE f[i - 1] \o ss[i]
  BY ONLY Flattens(f, n, ss), i \in 1..n DEF Flattens
<1>2. \A i \in 1..n + 1 : g[i] = IF i = 1 THEN ss[i] ELSE f[i - 1] \o ss[i]
  OBVIOUS
<1>3. ASSUME NEW i \in 1..n + 1 PROVE g[i] \in Seq(S)
  <2>1. ss[i] \in Seq(S)
    OBVIOUS
  <2>2. i # 1 => f[i - 1] \in Seq(S)
    OBVIOUS
  <2> QED
    BY <2>1, <2>2
<1>4. DOMAIN g = 1..n + 1 /\ g = [i \in DOMAIN g |-> g[i]]
  OBVIOUS
<1> HIDE DEF g
<1>5. ASSUME NEW i \in 1..n PROVE g[i] = f[i]
  <2>1. i \in 1..n + 1
    OBVIOUS
  <2> QED
    BY ONLY <1>1, <1>2, <2>1, i \in 1..n
<1>6. \A i \in 1..n + 1 : g[i] = IF i = 1 THEN ss[i] ELSE g[i - 1] \o ss[i]
  BY <1>2, <1>5
<1>7. Flattens(g, n + 1, ss)
  BY <1>4, <1>6 DEF Flattens
<1>8. g \in [1..n + 1 -> Seq(S)]
  BY <1>3, <1>4
<1> QED
  BY <1>7, <1>8

LEMMA FlattenExists ==
  ASSUME NEW S, NEW ss \in Seq(Seq(S))
  PROVE  \E f \in [1..Len(ss) -> Seq(S)] : Flattens(f, Len(ss), ss)
<1> DEFINE E(n) == n <= Len(ss) => \E f \in [1..n -> Seq(S)] : Flattens(f, n, ss)
           T == {n \in Nat : E(n)}
<1>1. E(0)
  <2> DEFINE f == [i \in 1..0 |-> IF i = 1 THEN ss[i] ELSE ss[i] \o ss[i]]
  <2>1. \A i \in 1..0 : FALSE
    OBVIOUS
  <2>2. f \in [1..0 -> Seq(S)] /\ Flattens(f, 0, ss)
    BY <2>1 DEF Flattens
  <2> QED
    BY <2>2
<1>2. ASSUME NEW n \in Nat, E(n) PROVE E(n + 1)
  <2> SUFFICES ASSUME n + 1 <= Len(ss)
               PROVE  \E f \in [1..n + 1 -> Seq(S)] : Flattens(f, n + 1, ss)
    OBVIOUS
  <2>1. PICK f \in [1..n -> Seq(S)] : Flattens(f, n, ss)
    BY <1>2
  <2> QED
    BY <2>1, FlattenGrows
<1> HIDE DEF E
<1>3. T \in SUBSET Nat /\ 0 \in T
  BY <1>1
<1>4. ASSUME NEW n \in T PROVE n + 1 \in T
  BY <1>2
<1>5. \A n \in T : E(n)
  OBVIOUS
<1> HIDE DEF T
<1>6. T = Nat
  BY <1>3, <1>4, Inductive
<1>7. E(Len(ss))
  BY <1>5, <1>6, LenProperties
<1> QED
  BY <1>7 DEF E

Same(f, g, k) == f[k] = g[k]
Extends(tt, ss, n) == \A i \in 1..n : tt[i] = ss[i]

LEMMA FlattensAgree ==
  ASSUME NEW ss, NEW tt, NEW n \in Nat, NEW m \in Nat, n <= m, Extends(tt, ss, n),
         NEW f, Flattens(f, n, ss), NEW g, Flattens(g, m, tt), NEW k \in 1..n
  PROVE  Same(f, g, k)
<1> DEFINE T == {i \in Nat : i \in 1..n => f[i] = g[i]}
<1>1. \A i \in 1..n : f[i] = IF i = 1 THEN ss[i] ELSE f[i - 1] \o ss[i]
  BY FlattensAt
<1>2. \A i \in 1..m : g[i] = IF i = 1 THEN tt[i] ELSE g[i - 1] \o tt[i]
  BY FlattensAt
<1>3. 0 \in T
  OBVIOUS
<1>4. ASSUME NEW i \in T PROVE i + 1 \in T
  BY <1>1, <1>2, <1>4 DEF Extends
<1> HIDE DEF T
<1>5. T = Nat
  BY <1>3, <1>4, Inductive DEF T
<1>6. \A i \in Nat : i \in T
  BY <1>5
<1> QED
  BY <1>6 DEF T, Same

LEMMA FlattenDef ==
  ASSUME NEW S, NEW ss \in Seq(Seq(S)), Len(ss) # 0
  PROVE  \E f \in [1..Len(ss) -> Seq(S)] :
           Flattens(f, Len(ss), ss) /\ U!FlattenSeq(ss) = f[Len(ss)]
<1> DEFINE c == CHOOSE f : Flattens(f, Len(ss), ss)
<1>1. U!FlattenSeq(ss) = c[Len(ss)]
  BY DEF U!FlattenSeq, Flattens
<1>2. PICK f \in [1..Len(ss) -> Seq(S)] : Flattens(f, Len(ss), ss)
  BY FlattenExists
<1>3. Flattens(c, Len(ss), ss)
  BY <1>2
<1> HIDE DEF c
<1>4. c[Len(ss)] = f[Len(ss)]
  <2>1. Extends(ss, ss, Len(ss)) /\ Len(ss) \in Nat /\ Len(ss) <= Len(ss) /\ Len(ss) \in 1..Len(ss)
    BY LenProperties DEF Extends
  <2> QED
    BY <1>2, <1>3, <2>1, FlattensAgree DEF Same
<1> QED
  BY <1>1, <1>2, <1>4

LEMMA FlattenAppend ==
  ASSUME NEW S, NEW ss \in Seq(Seq(S)), NEW s \in Seq(S)
  PROVE  /\ U!FlattenSeq(<<>>) = <<>>
         /\ U!FlattenSeq(ss) \in Seq(S)
         /\ U!FlattenSeq(Append(ss, s)) = U!FlattenSeq(ss) \o s
<1>1. U!FlattenSeq(<<>>) = <<>>
  BY DEF U!FlattenSeq
<1>2. U!FlattenSeq(ss) \in Seq(S)
  <2>1. CASE Len(ss) = 0
    <3>1. ss = <<>>
      BY <2>1, EmptySeq
    <3> QED
      BY <3>1, <1>1, EmptySeq
  <2>2. CASE Len(ss) # 0
    <3>1. PICK f \in [1..Len(ss) -> Seq(S)] : U!FlattenSeq(ss) = f[Len(ss)]
      BY <2>2, FlattenDef
    <3>2. Len(ss) \in 1..Len(ss)
      BY <2>2, LenProperties
    <3> QED
      BY <3>1, <3>2
  <2> QED
    BY <2>1, <2>2
<1> DEFINE tt == Append(ss, s)
           n == Len(ss)
<1>3. tt \in Seq(Seq(S)) /\ Len(tt) = n + 1 /\ tt[n + 1] = s /\ \A i \in 1..n : tt[i] = ss[i]
  OBVIOUS
<1>4. n \in Nat
  OBVIOUS
<1> HIDE DEF tt
<1>5. PICK g \in [1..n + 1 -> Seq(S)] : Flattens(g, n + 1, tt) /\ U!FlattenSeq(tt) = g[n + 1]
  BY <1>3, <1>4, FlattenDef
<1>6. g[n + 1] = IF n + 1 = 1 THEN tt[n + 1] ELSE g[n] \o tt[n + 1]
  <2>1. n + 1 \in 1..n + 1 /\ (n + 1) - 1 = n
    BY <1>4
  <2> QED
    BY <1>5, <2>1, FlattensAt
<1>7. CASE n = 0
  BY <1>1, <1>2, <1>3, <1>5, <1>6, <1>7 DEF tt
<1>8. CASE n # 0
  <2>1. PICK f \in [1..n -> Seq(S)] : Flattens(f, n, ss) /\ U!FlattenSeq(ss) = f[n]
    BY <1>8, FlattenDef
  <2>2. f[n] = g[n]
    <3>1. Extends(tt, ss, n) /\ n + 1 \in Nat /\ n <= n + 1 /\ n \in 1..n
      BY <1>3, <1>4, <1>8 DEF Extends
    <3> HIDE DEF n
    <3>2. Same(f, g, n)
      BY <1>4, <1>5, <2>1, <3>1, FlattensAgree, Zenon
    <3> QED
      BY <3>2 DEF Same
  <2> QED
    BY <1>1, <1>2, <1>3, <1>5, <1>6, <1>8, <2>1, <2>2 DEF tt
<1> QED
  BY <1>7, <1>8

(* One more element of a sequence of sequences *)
LEMMA FlattenNext ==
  ASSUME NEW S, NEW ss \in Seq(Seq(S)), NEW k \in Nat, k < Len(ss)
  PROVE  /\ U!FlattenSeq(SubSeq(ss, 1, 0)) = <<>>
         /\ U!FlattenSeq(SubSeq(ss, 1, k)) \in Seq(S)
         /\ U!FlattenSeq(SubSeq(ss, 1, k + 1)) = U!FlattenSeq(SubSeq(ss, 1, k)) \o ss[k + 1]
<1>1. SubSeq(ss, 1, k) \in Seq(Seq(S)) /\ ss[k + 1] \in Seq(S)
  OBVIOUS
<1>2. SubSeq(ss, 1, k + 1) = Append(SubSeq(ss, 1, k), ss[k + 1])
  OBVIOUS
<1>3. SubSeq(ss, 1, 0) = <<>>
  OBVIOUS
<1> QED
  BY <1>1, <1>2, <1>3, FlattenAppend

LEMMA FlattenType ==
  ASSUME NEW S, NEW ss \in Seq(Seq(S))
  PROVE  U!FlattenSeq(ss) \in Seq(S)
<1>1. <<>> \in Seq(S)
  OBVIOUS
<1> QED
  BY <1>1, FlattenAppend

(* Induction up to a bound *)
LEMMA UpTo ==
  ASSUME NEW n \in Nat, NEW T, 0 \in T, \A k \in 0..n : k \in T /\ k < n => k + 1 \in T
  PROVE  \A k \in 0..n : k \in T
<1> DEFINE V == {k \in Nat : k <= n => k \in T}
<1>1. V \in SUBSET Nat /\ 0 \in V
  OBVIOUS
<1>2. ASSUME NEW k \in V PROVE k + 1 \in V
  <2>1. k \in Nat /\ (k <= n => k \in T)
    OBVIOUS
  <2>2. ASSUME k + 1 <= n PROVE k + 1 \in T
    BY <2>1, <2>2
  <2> QED
    BY <2>1, <2>2
<1>3. \A k \in V : k <= n => k \in T
  OBVIOUS
<1> HIDE DEF V
<1>4. V = Nat
  BY <1>1, <1>2, Inductive
<1> QED
  BY <1>3, <1>4

(* and down from it *)
LEMMA DownFrom ==
  ASSUME NEW m \in Nat, NEW n \in Nat, NEW T, n \in T,
         \A k \in m..n : k \in T /\ m < k => k - 1 \in T
  PROVE  \A k \in m..n : k \in T
<1> DEFINE V == {i \in Nat : i <= n - m => n - i \in T}
<1>1. V \in SUBSET Nat /\ 0 \in V
  OBVIOUS
<1>2. ASSUME NEW i \in V PROVE i + 1 \in V
  <2>1. i \in Nat /\ (i <= n - m => n - i \in T)
    OBVIOUS
  <2>2. ASSUME i + 1 <= n - m PROVE n - (i + 1) \in T
    <3>1. n - i \in m..n /\ m < n - i /\ (n - i) - 1 = n - (i + 1) /\ n - i \in T
      BY <2>1, <2>2
    <3> QED
      BY <3>1
  <2> QED
    BY <2>1, <2>2
<1>3. \A i \in V : i <= n - m => n - i \in T
  OBVIOUS
<1> HIDE DEF V
<1>4. V = Nat
  BY <1>1, <1>2, Inductive
<1>5. ASSUME NEW k \in m..n PROVE k \in T
  <2>1. n - k \in Nat /\ n - k <= n - m /\ n - (n - k) = k
    OBVIOUS
  <2> QED
    BY <2>1, <1>3, <1>4
<1> QED
  BY <1>5

(* Where the elements of two sequences are in their concatenation *)
LEMMA ConcatAt ==
  ASSUME NEW S, NEW s \in Seq(S), NEW t \in Seq(S)
  PROVE  /\ s \o t \in Seq(S) /\ Len(s \o t) = Len(s) + Len(t) /\ Len(s) \in Nat /\ Len(t) \in Nat
         /\ \A i \in 1..Len(s) : (s \o t)[i] = s[i]
         /\ \A j \in 1..Len(t) : (s \o t)[Len(s) + j] = t[j]
OBVIOUS

(* Where the parts of a flattened sequence lie *)
At(ss, k) == Len(U!FlattenSeq(SubSeq(ss, 1, k)))

LEMMA AtNext ==
  ASSUME NEW S, NEW ss \in Seq(Seq(S)), NEW k \in Nat, k < Len(ss)
  PROVE  At(ss, 0) = 0 /\ At(ss, k) \in Nat /\ At(ss, k + 1) = At(ss, k) + Len(ss[k + 1])
<1>1. ss[k + 1] \in Seq(S)
  OBVIOUS
<1>2. U!FlattenSeq(SubSeq(ss, 1, k)) \in Seq(S)
  BY FlattenNext
<1> DEFINE a == U!FlattenSeq(SubSeq(ss, 1, k))
           b == ss[k + 1]
<1>3. U!FlattenSeq(SubSeq(ss, 1, k + 1)) = a \o b /\ U!FlattenSeq(SubSeq(ss, 1, 0)) = <<>>
  BY FlattenNext
<1> HIDE DEF a, b
<1>4. Len(a \o b) = Len(a) + Len(b) /\ Len(a) \in Nat
  BY <1>1, <1>2 DEF a, b
<1> QED
  BY <1>3, <1>4 DEF At, a, b

LEMMA FlattenPlace ==
  ASSUME NEW S, NEW ss \in Seq(Seq(S)), NEW n \in 0..Len(ss), NEW k \in Nat, k < n
  PROVE  /\ At(ss, k) \in Nat /\ At(ss, k + 1) <= At(ss, n)
         /\ At(ss, k + 1) = At(ss, k) + Len(ss[k + 1])
         /\ \A j \in 1..Len(ss[k + 1]) :
              U!FlattenSeq(SubSeq(ss, 1, n))[At(ss, k) + j] = ss[k + 1][j]
<1> DEFINE F(m) == U!FlattenSeq(SubSeq(ss, 1, m))
           Good(m) == /\ At(ss, k + 1) <= At(ss, m)
                      /\ \A j \in 1..Len(ss[k + 1]) : F(m)[At(ss, k) + j] = ss[k + 1][j]
           T == {m \in 0..n : k < m => Good(m)}
<1>1. Len(ss) \in Nat /\ n \in Nat
  OBVIOUS
<1>2. At(ss, k) \in Nat /\ At(ss, k + 1) = At(ss, k) + Len(ss[k + 1])
  BY <1>1, AtNext
<1>3. 0 \in T
  BY <1>1
<1>4. ASSUME NEW m \in 0..n, m \in T, m < n PROVE m + 1 \in T
  <2>1. m \in Nat /\ m < Len(ss)
    BY <1>1, <1>4
  <2>2. F(m + 1) = F(m) \o ss[m + 1] /\ F(m) \in Seq(S)
    BY <2>1, FlattenNext
  <2>3. ss[m + 1] \in Seq(S) /\ ss[k + 1] \in Seq(S)
    BY <1>1, <2>1
  <2>4. At(ss, m + 1) = At(ss, m) + Len(ss[m + 1]) /\ At(ss, m) \in Nat
    BY <2>1, AtNext
  <2>5. At(ss, m) = Len(F(m))
    BY DEF At
  <2>6. Len(ss[m + 1]) \in Nat /\ Len(ss[k + 1]) \in Nat
    BY <2>3
  <2>7. CASE m = k
    <3>1. ASSUME NEW j \in 1..Len(ss[k + 1]) PROVE F(m + 1)[At(ss, k) + j] = ss[k + 1][j]
      <4>1. (F(m) \o ss[m + 1])[Len(F(m)) + j] = ss[m + 1][j]
        <5> HIDE DEF F
        <5> QED
          BY <2>2, <2>3, <2>7, ConcatAt
      <4> QED
        BY <2>2, <2>5, <2>7, <4>1
    <3> QED
      BY <1>2, <1>4, <2>1, <2>7, <3>1
  <2>8. CASE m > k
    <3>1. Good(m)
      BY <1>4, <2>8
    <3>2. ASSUME NEW j \in 1..Len(ss[k + 1]) PROVE F(m + 1)[At(ss, k) + j] = ss[k + 1][j]
      <4>1. At(ss, k) + j \in 1..Len(F(m))
        BY <1>2, <2>4, <2>5, <2>6, <3>1, SMTT(20)
      <4>2. F(m)[At(ss, k) + j] = ss[k + 1][j]
        BY <3>1
      <4> HIDE DEF F
      <4> QED
        BY <2>2, <2>3, <4>1, <4>2
    <3>3. At(ss, k + 1) <= At(ss, m + 1)
      BY <1>2, <2>4, <2>6, <3>1, SMTT(20)
    <3> QED
      BY <1>1, <1>4, <2>1, <3>2, <3>3
  <2>9. CASE m < k
    BY <1>1, <1>4, <2>1, <2>9
  <2> QED
    BY <2>1, <2>7, <2>8, <2>9
<1> HIDE DEF T
<1>5. n \in T
  <2>1. \A m \in 0..n : m \in T /\ m < n => m + 1 \in T
    BY <1>4
  <2>2. \A m \in 0..n : m \in T
    BY <1>1, <1>3, <2>1, UpTo
  <2> QED
    BY <1>1, <2>2
<1>6. Good(n)
  BY <1>5 DEF T
<1> QED
  BY <1>2, <1>6

Chr == U!Line \cup {"CR", "LF"}
Rows(body, newline) == [l \in DOMAIN body |-> <<body[l]>> \o newline]

LEMMA NewLines ==
  ASSUME NEW newline \in U!NewLine
  PROVE  /\ newline \in Seq(Chr) /\ Len(newline) \in {1, 2}
         /\ newline = <<"LF">> \/ newline = <<"CR", "LF">>
<1>1. CASE newline = <<"LF">>
  <2>1. "LF" \in Chr
    BY DEF Chr
  <2> QED
    BY <1>1, <2>1
<1>2. CASE newline = <<"CR", "LF">>
  <2>1. "LF" \in Chr /\ "CR" \in Chr
    BY DEF Chr
  <2> QED
    BY <1>2, <2>1
<1> QED
  BY <1>1, <1>2 DEF U!NewLine

LEMMA RowsType ==
  ASSUME NEW body \in Seq(U!Line), NEW newline \in U!NewLine
  PROVE  /\ Rows(body, newline) \in Seq(Seq(Chr)) /\ Len(Rows(body, newline)) = Len(body)
         /\ newline \in Seq(Chr)
         /\ \A k \in 1..Len(body) : Rows(body, newline)[k] = <<body[k]>> \o newline
<1>1. newline \in Seq(Chr)
  BY NewLines
<1>2. \A k \in 1..Len(body) : <<body[k]>> \in Seq(Chr)
  BY DEF Chr
<1>3. \A k \in 1..Len(body) : <<body[k]>> \o newline \in Seq(Chr)
  BY <1>1, <1>2, ConcatAt
<1>4. DOMAIN body = 1..Len(body) /\ Len(body) \in Nat
  OBVIOUS
<1> QED
  BY <1>1, <1>3, <1>4 DEF Rows

LEMMA RowsEnd ==
  ASSUME NEW body \in Seq(U!Line), NEW newline \in U!NewLine, NEW k \in 0..Len(body)
  PROVE  At(Rows(body, newline), k) = k * (Len(newline) + 1)
<1> DEFINE ss == Rows(body, newline)
           w == Len(newline)
           T == {i \in Nat : At(ss, i) = i * (w + 1)}
<1>1. ss \in Seq(Seq(Chr)) /\ Len(ss) = Len(body) /\ \A i \in 1..Len(body) : ss[i] = <<body[i]>> \o newline
  BY RowsType
<1>2. w \in {1, 2} /\ newline \in Seq(Chr)
  BY NewLines
<1>3. Len(body) \in Nat
  OBVIOUS
<1>4. 0 \in T
  <2>1. At(ss, 0) = 0
    <3>1. SubSeq(ss, 1, 0) = <<>>
      BY <1>1
    <3> QED
      BY <3>1, FlattenAppend DEF At, U!FlattenSeq
  <2> QED
    BY <1>2, <2>1
<1>5. ASSUME NEW i \in 0..Len(body), i \in T, i < Len(body) PROVE i + 1 \in T
  <2>1. i \in Nat /\ i + 1 \in 1..Len(body)
    BY <1>3, <1>5
  <2>2. At(ss, i + 1) = At(ss, i) + Len(ss[i + 1])
    BY <1>1, <1>5, <2>1, AtNext
  <2>3. Len(ss[i + 1]) = 1 + w
    <3>1. <<body[i + 1]>> \in Seq(Chr) /\ Len(<<body[i + 1]>>) = 1
      BY <2>1 DEF Chr
    <3>2. ss[i + 1] = <<body[i + 1]>> \o newline
      BY <1>1, <2>1
    <3> QED
      BY <1>2, <3>1, <3>2, ConcatAt
  <2>4. At(ss, i) = i * (w + 1)
    BY <1>5
  <2>5. i * (w + 1) + (1 + w) = (i + 1) * (w + 1)
    <3>1. CASE w = 1 BY <2>1, <3>1
    <3>2. CASE w = 2 BY <2>1, <3>2
    <3> QED
      BY <1>2, <3>1, <3>2
  <2> QED
    BY <2>1, <2>2, <2>3, <2>4, <2>5
<1>6. k \in T
  <2> HIDE DEF T
  <2>1. \A i \in 0..Len(body) : i \in T /\ i < Len(body) => i + 1 \in T
    BY <1>5
  <2>2. \A i \in 0..Len(body) : i \in T
    BY <1>3, <1>4, <2>1, UpTo
  <2> QED
    BY <2>2
<1> QED
  BY <1>6

(* The bytes of a frame *)
LEMMA FramedAt ==
  ASSUME NEW body \in Seq(U!Line), NEW newline \in U!NewLine
  PROVE  LET F == U!Framed(body, newline)
             w == Len(newline)
             n == Len(body)
         IN  /\ F \in Seq(Chr) /\ Len(F) = n * (w + 1) + w
             /\ \A k \in 0..n - 1 : F[k * (w + 1) + 1] = body[k + 1]
             /\ \A k \in 0..n - 1, j \in 1..w : F[k * (w + 1) + 1 + j] = newline[j]
             /\ \A j \in 1..w : F[n * (w + 1) + j] = newline[j]
<1> DEFINE ss == Rows(body, newline)
           w == Len(newline)
           n == Len(body)
           W == U!FlattenSeq(ss)
           F == W \o newline
<1>1. ss \in Seq(Seq(Chr)) /\ Len(ss) = n /\ newline \in Seq(Chr)
      /\ \A i \in 1..n : ss[i] = <<body[i]>> \o newline
  BY RowsType
<1>2. w \in {1, 2} /\ n \in Nat
  BY NewLines
<1>3. SubSeq(ss, 1, n) = ss /\ n \in 0..Len(ss)
  BY <1>1, <1>2
<1>4. W \in Seq(Chr) /\ Len(W) = n * (w + 1)
  <2>1. W \in Seq(Chr)
    BY <1>1, FlattenType
  <2>2. At(ss, n) = n * (w + 1)
    BY <1>2, RowsEnd
  <2> QED
    BY <1>3, <2>1, <2>2 DEF At
<1>5. U!Framed(body, newline) = F
  BY DEF U!Framed, Rows
<1>6. F \in Seq(Chr) /\ Len(F) = n * (w + 1) + w /\ (\A i \in 1..Len(W) : F[i] = W[i])
      /\ \A j \in 1..w : F[n * (w + 1) + j] = newline[j]
  <2>1. /\ W \o newline \in Seq(Chr) /\ Len(W \o newline) = Len(W) + Len(newline)
        /\ (\A i \in 1..Len(W) : (W \o newline)[i] = W[i])
        /\ \A j \in 1..Len(newline) : (W \o newline)[Len(W) + j] = newline[j]
    <3>1. W \in Seq(Chr) /\ newline \in Seq(Chr)
      BY <1>1, <1>4
    <3> HIDE DEF W
    <3> QED
      BY ONLY <3>1, ConcatAt
  <2> HIDE DEF n, W
  <2> QED
    BY <1>4, <2>1
<1>7. ASSUME NEW k \in 0..n - 1
      PROVE  F[k * (w + 1) + 1] = body[k + 1] /\ \A j \in 1..w : F[k * (w + 1) + 1 + j] = newline[j]
  <2>1. k \in Nat /\ k < n /\ k + 1 \in 1..n
    BY <1>2
  <2>2. k * (w + 1) \in Nat /\ (k + 1) * (w + 1) = k * (w + 1) + 1 + w
    BY <1>2, <2>1
  <2>3. At(ss, k) = k * (w + 1) /\ At(ss, k + 1) = (k + 1) * (w + 1) /\ At(ss, n) = n * (w + 1)
    BY <1>2, <2>1, RowsEnd
  <2>4. At(ss, k + 1) <= At(ss, n) /\ \A j \in 1..Len(ss[k + 1]) : W[At(ss, k) + j] = ss[k + 1][j]
    <3>1. U!FlattenSeq(SubSeq(ss, 1, n)) = W
      BY <1>3
    <3> HIDE DEF n, ss, W
    <3>2. /\ At(ss, k + 1) <= At(ss, n)
          /\ \A j \in 1..Len(ss[k + 1]) : U!FlattenSeq(SubSeq(ss, 1, n))[At(ss, k) + j] = ss[k + 1][j]
      BY <1>1, <1>3, <2>1, FlattenPlace
    <3> QED
      BY <3>1, <3>2
  <2>5. ss[k + 1] = <<body[k + 1]>> \o newline
    BY <1>1, <2>1
  <2>6. Len(ss[k + 1]) = 1 + w /\ ss[k + 1][1] = body[k + 1] /\ \A j \in 1..w : ss[k + 1][1 + j] = newline[j]
    <3>1. <<body[k + 1]>> \in Seq(Chr) /\ Len(<<body[k + 1]>>) = 1 /\ <<body[k + 1]>>[1] = body[k + 1]
      BY <2>1 DEF Chr
    <3>2. 1 \in 1..1
      OBVIOUS
    <3> HIDE DEF ss
    <3> QED
      BY <1>1, <1>2, <2>5, <3>1, <3>2, ConcatAt
  <2> HIDE DEF F, W, ss, n, w
  <2>7. W[k * (w + 1) + 1] = body[k + 1] /\ \A j \in 1..w : W[k * (w + 1) + (1 + j)] = newline[j]
    <3>1. 1 \in 1..1 + w /\ \A j \in 1..w : 1 + j \in 1..1 + w
      BY <1>2
    <3> QED
      BY <2>3, <2>4, <2>6, <3>1
  <2>8. k * (w + 1) + 1 \in 1..Len(W) /\ \A j \in 1..w : k * (w + 1) + (1 + j) \in 1..Len(W)
    <3>1. k * (w + 1) + 1 + w <= Len(W)
      BY <1>4, <2>2, <2>3, <2>4
    <3> QED
      BY <1>2, <2>2, <1>4, <3>1
  <2>9. \A j \in 1..w : k * (w + 1) + (1 + j) = k * (w + 1) + 1 + j
    BY <1>2, <2>2
  <2> QED
    BY <1>6, <2>7, <2>8, <2>9
<1> HIDE DEF F
<1>8. (\A k \in 0..n - 1 : F[k * (w + 1) + 1] = body[k + 1])
      /\ \A k \in 0..n - 1 : \A j \in 1..w : F[k * (w + 1) + 1 + j] = newline[j]
  BY <1>7
<1> HIDE DEF n, w
<1> SUFFICES /\ F \in Seq(Chr) /\ Len(F) = n * (w + 1) + w
             /\ \A k \in 0..n - 1 : F[k * (w + 1) + 1] = body[k + 1]
             /\ \A k \in 0..n - 1, j \in 1..w : F[k * (w + 1) + 1 + j] = newline[j]
             /\ \A j \in 1..w : F[n * (w + 1) + j] = newline[j]
  BY <1>5 DEF n, w
<1> QED
  BY <1>6, <1>8

(* Where a delimiter of either kind starts *)
LEMMA StartsPair ==
  ASSUME NEW b \in Seq(Chr), NEW i \in Nat
  PROVE  i \in U!Starts(b, <<"LF", "LF">>)
           <=> i \in 1..Len(b) /\ i + 1 <= Len(b) /\ b[i] = "LF" /\ b[i + 1] = "LF"
<1> DEFINE d == <<"LF", "LF">>
<1>1. Len(d) = 2 /\ i + Len(d) - 1 = i + 1
  OBVIOUS
<1>2. ASSUME i \in 1..Len(b), i + 1 <= Len(b)
      PROVE  SubSeq(b, i, i + 1) = d <=> b[i] = "LF" /\ b[i + 1] = "LF"
  <2> DEFINE s == SubSeq(b, i, i + 1)
  <2>1. s \in Seq(Chr) /\ Len(s) = 2 /\ s[1] = b[i] /\ s[2] = b[i + 1]
    BY <1>2
  <2>2. d \in Seq({"LF"}) /\ d[1] = "LF" /\ d[2] = "LF"
    OBVIOUS
  <2>3. ASSUME s[1] = "LF", s[2] = "LF" PROVE s = d
    <3>1. s \in Seq(Chr) /\ d \in Seq(Chr)
      <4>1. "CR" \in Chr /\ "LF" \in Chr
        BY DEF Chr
      <4> HIDE DEF s
      <4> QED
        BY <2>1, <4>1
    <3>2. Len(s) = Len(d) /\ \A j \in 1..Len(s) : s[j] = d[j]
      BY <1>1, <2>1, <2>2, <2>3
    <3> HIDE DEF s, d
    <3> QED
      BY <3>1, <3>2, SeqEqual
  <2> HIDE DEF s, d
  <2>4. s = d <=> b[i] = "LF" /\ b[i + 1] = "LF"
    BY <2>1, <2>2, <2>3
  <2> QED
    BY <2>4 DEF s
<1> QED
  BY <1>1, <1>2 DEF U!Starts

LEMMA StartsQuad ==
  ASSUME NEW b \in Seq(Chr), NEW i \in Nat
  PROVE  i \in U!Starts(b, <<"CR", "LF", "CR", "LF">>)
           <=> i \in 1..Len(b) /\ i + 3 <= Len(b)
               /\ b[i] = "CR" /\ b[i + 1] = "LF" /\ b[i + 2] = "CR" /\ b[i + 3] = "LF"
<1> DEFINE d == <<"CR", "LF", "CR", "LF">>
<1>1. Len(d) = 4 /\ i + Len(d) - 1 = i + 3
  OBVIOUS
<1>2. ASSUME i \in 1..Len(b), i + 3 <= Len(b)
      PROVE  SubSeq(b, i, i + 3) = d
               <=> b[i] = "CR" /\ b[i + 1] = "LF" /\ b[i + 2] = "CR" /\ b[i + 3] = "LF"
  <2> DEFINE s == SubSeq(b, i, i + 3)
  <2>1. s \in Seq(Chr) /\ Len(s) = 4 /\ s[1] = b[i] /\ s[2] = b[i + 1] /\ s[3] = b[i + 2] /\ s[4] = b[i + 3]
    <3>1. s \in Seq(Chr) /\ Len(s) = 4
      BY <1>2
    <3>2. \A j \in 1..4 : s[j] = b[i + j - 1]
      BY <1>2
    <3>3. i + 1 - 1 = i /\ i + 2 - 1 = i + 1 /\ i + 3 - 1 = i + 2 /\ i + 4 - 1 = i + 3
      OBVIOUS
    <3> HIDE DEF s
    <3> QED
      BY <3>1, <3>2, <3>3
  <2>2. d[1] = "CR" /\ d[2] = "LF" /\ d[3] = "CR" /\ d[4] = "LF"
    OBVIOUS
  <2>3. ASSUME s[1] = "CR", s[2] = "LF", s[3] = "CR", s[4] = "LF" PROVE s = d
    <3>1. s \in Seq(Chr) /\ d \in Seq(Chr)
      <4>1. "CR" \in Chr /\ "LF" \in Chr
        BY DEF Chr
      <4> HIDE DEF s
      <4> QED
        BY <2>1, <4>1
    <3>2. Len(s) = Len(d) /\ \A j \in 1..Len(s) : s[j] = d[j]
      BY <1>1, <2>1, <2>2, <2>3
    <3> HIDE DEF s, d
    <3> QED
      BY <3>1, <3>2, SeqEqual
  <2> HIDE DEF s, d
  <2>4. s = d <=> b[i] = "CR" /\ b[i + 1] = "LF" /\ b[i + 2] = "CR" /\ b[i + 3] = "LF"
    BY <2>1, <2>2, <2>3
  <2> QED
    BY <2>4 DEF s
<1> QED
  BY <1>1, <1>2 DEF U!Starts

Pairs(b) == U!Starts(b, <<"LF", "LF">>)
Quads(b) == U!Starts(b, <<"CR", "LF", "CR", "LF">>)

LEMMA DelimiterNone ==
  ASSUME NEW b, Pairs(b) = {}, Quads(b) = {}
  PROVE  U!Delimiter(b) = <<0, 0>>
BY DEF Pairs, Quads, U!Delimiter

LEMMA DelimiterFirst ==
  ASSUME NEW b, NEW i \in Nat, NEW d,
         (d = 2 /\ i \in Pairs(b)) \/ (d = 4 /\ i \in Quads(b)),
         \A j \in Pairs(b) : j \in Nat /\ i <= j /\ (j = i => d = 2),
         \A j \in Quads(b) : j \in Nat /\ i <= j /\ (j = i => d = 4)
  PROVE  U!Delimiter(b) = <<i, d>>
<1> DEFINE ends == {<<j, 2>> : j \in Pairs(b)} \cup {<<j, 4>> : j \in Quads(b)}
<1>1. <<i, d>> \in ends /\ <<i, d>>[1] = i
  OBVIOUS
<1>2. \A e \in ends : e[1] \in Nat /\ i <= e[1] /\ (e[1] = i => e = <<i, d>>)
  OBVIOUS
<1>3. U!Delimiter(b) = IF ends = {} THEN <<0, 0>> ELSE CHOOSE e \in ends : \A f \in ends : e[1] <= f[1]
  BY DEF U!Delimiter, Pairs, Quads
<1> HIDE DEF ends
<1>4. <<i, d>> \in ends /\ \A f \in ends : <<i, d>>[1] <= f[1]
  BY <1>1, <1>2
<1>5. PICK e \in ends : e = (CHOOSE x \in ends : \A f \in ends : x[1] <= f[1]) /\ \A f \in ends : e[1] <= f[1]
  BY <1>4
<1>6. e[1] <= i
  BY <1>1, <1>5
<1>7. e = <<i, d>>
  BY <1>2, <1>5, <1>6
<1> QED
  BY <1>1, <1>3, <1>5, <1>7

(* The first delimiter of bytes that begin like a frame *)
StartsLike(b, F) == \A i \in 1..Len(F) : i <= Len(b) => b[i] = F[i]

LEMMA BytesLF ==
  ASSUME NEW body \in Seq(U!Line)
  PROVE  LET F == U!Framed(body, <<"LF">>)
             n == Len(body)
         IN  /\ Len(F) = 2 * n + 1
             /\ \A k \in 0..n - 1 : F[2 * k + 1] = body[k + 1] /\ F[2 * k + 2] = "LF"
             /\ F[2 * n + 1] = "LF"
<1> DEFINE F == U!Framed(body, <<"LF">>)
           n == Len(body)
<1>1. n \in Nat
  OBVIOUS
<1>3. /\ Len(F) = 2 * n + 1
      /\ \A k \in 0..n - 1 : F[2 * k + 1] = body[k + 1] /\ F[2 * k + 2] = "LF"
      /\ F[2 * n + 1] = "LF"
  <2>1. <<"LF">> \in U!NewLine /\ Len(<<"LF">>) = 1 /\ <<"LF">>[1] = "LF"
    BY DEF U!NewLine
  <2>2. /\ Len(F) = n * (1 + 1) + 1
        /\ \A k \in 0..n - 1 : F[k * (1 + 1) + 1] = body[k + 1]
        /\ \A k \in 0..n - 1, j \in 1..1 : F[k * (1 + 1) + 1 + j] = <<"LF">>[j]
        /\ \A j \in 1..1 : F[n * (1 + 1) + j] = <<"LF">>[j]
    BY <2>1, FramedAt
  <2>3. 1 \in 1..1 /\ \A k \in Nat : k * (1 + 1) + 1 = 2 * k + 1 /\ k * (1 + 1) + 1 + 1 = 2 * k + 2
    OBVIOUS
  <2>4. \A k \in 0..n - 1 : F[2 * k + 1] = body[k + 1]
    BY <1>1, <2>2, <2>3
  <2>5. \A k \in 0..n - 1 : F[2 * k + 2] = "LF"
    BY <1>1, <2>1, <2>2, <2>3
  <2> QED
    BY <1>1, <2>1, <2>2, <2>3, <2>4, <2>5
<1> QED
  BY <1>3

LEMMA FrameEndLF ==
  ASSUME NEW body \in Seq(U!Line) \ {<<>>}, NEW b \in Seq(Chr), StartsLike(b, U!Framed(body, <<"LF">>))
  PROVE  /\ Len(U!Framed(body, <<"LF">>)) = 2 * Len(body) + 1
         /\ Len(b) >= 2 * Len(body) + 1 => U!Delimiter(b) = <<2 * Len(body), 2>>
         /\ Len(b) < 2 * Len(body) + 1 => U!Delimiter(b) = <<0, 0>>
<1> DEFINE F == U!Framed(body, <<"LF">>)
           n == Len(body)
<1>1. n \in Nat /\ n # 0 /\ Len(b) \in Nat
  BY EmptySeq
<1>2. \A k \in 1..n : body[k] # "LF" /\ body[k] # "CR"
  BY DEF U!Line
<1>3. /\ Len(F) = 2 * n + 1
      /\ \A k \in 0..n - 1 : F[2 * k + 1] = body[k + 1] /\ F[2 * k + 2] = "LF"
      /\ F[2 * n + 1] = "LF"
  BY BytesLF
<1> HIDE DEF F, n
<1>4. ASSUME NEW i \in 1..2 * n
      PROVE  \E k \in 0..n - 1 : i = 2 * k + 1 \/ i = 2 * k + 2
  <2>1. CASE i % 2 = 1
    <3>1. (i \div 2) \in 0..n - 1 /\ i = 2 * (i \div 2) + 1
      BY <1>1, <2>1
    <3> QED
      BY <3>1
  <2>2. CASE i % 2 = 0
    <3>1. (i \div 2) - 1 \in 0..n - 1 /\ i = 2 * ((i \div 2) - 1) + 2
      BY <1>1, <2>2
    <3> QED
      BY <3>1
  <2> QED
    BY <2>1, <2>2
<1>5. \A i \in 1..2 * n + 1 : i <= Len(b) => b[i] = F[i]
  BY <1>3 DEF StartsLike, F
<1>6. ASSUME NEW i \in 1..2 * n + 1, i <= Len(b) PROVE b[i] # "CR"
  <2>1. b[i] = F[i]
    BY <1>5, <1>6
  <2>2. CASE i = 2 * n + 1
    BY <1>3, <2>1, <2>2
  <2>3. CASE i \in 1..2 * n
    <3>1. PICK k \in 0..n - 1 : i = 2 * k + 1 \/ i = 2 * k + 2
      BY <1>4, <2>3
    <3>2. k + 1 \in 1..n /\ body[k + 1] # "CR"
      BY <1>1, <1>2
    <3> QED
      BY <1>3, <2>1, <3>1, <3>2
  <2> QED
    BY <1>1, <2>2, <2>3
<1>7. ASSUME NEW i \in 1..2 * n - 1, i + 1 <= Len(b) PROVE ~(b[i] = "LF" /\ b[i + 1] = "LF")
  <2>0. i \in 1..2 * n /\ i + 1 \in 1..2 * n + 1 /\ i <= Len(b) /\ i \in 1..2 * n + 1
    BY <1>1, <1>7
  <2>1. b[i] = F[i] /\ b[i + 1] = F[i + 1]
    BY <1>5, <1>7, <2>0
  <2>2. PICK k \in 0..n - 1 : i = 2 * k + 1 \/ i = 2 * k + 2
    BY <1>4, <2>0
  <2>3. CASE i = 2 * k + 1
    BY <1>1, <1>2, <1>3, <2>1, <2>3
  <2>4. CASE i = 2 * k + 2
    <3>1. k + 1 \in 0..n - 1 /\ i + 1 = 2 * (k + 1) + 1 /\ (k + 1) + 1 \in 1..n
      BY <1>1, <2>4
    <3> QED
      BY <1>2, <1>3, <2>1, <3>1
  <2> QED
    BY <2>2, <2>3, <2>4
<1>8. ASSUME NEW j \in Pairs(b) PROVE j \in Nat /\ 2 * n <= j
  <2>1. j \in Nat /\ j \in 1..Len(b)
    BY <1>1 DEF Pairs, U!Starts
  <2>2. j + 1 <= Len(b) /\ b[j] = "LF" /\ b[j + 1] = "LF"
    BY <1>8, <2>1, StartsPair DEF Pairs
  <2> QED
    BY <1>1, <1>7, <2>1, <2>2
<1>9. ASSUME NEW j \in Quads(b) PROVE j \in Nat /\ 2 * n + 1 < j
  <2>1. j \in Nat /\ j \in 1..Len(b)
    BY <1>1 DEF Quads, U!Starts
  <2>2. b[j] = "CR"
    BY <1>9, <2>1, StartsQuad DEF Quads
  <2> QED
    BY <1>1, <1>6, <2>1, <2>2
<1>10. ASSUME Len(b) >= 2 * n + 1 PROVE U!Delimiter(b) = <<2 * n, 2>>
  <2>1. b[2 * n] = "LF" /\ b[2 * n + 1] = "LF"
    <3>1. n - 1 \in 0..n - 1 /\ 2 * (n - 1) + 2 = 2 * n /\ 2 * n \in 1..2 * n + 1 /\ 2 * n + 1 \in 1..2 * n + 1
          /\ 2 * n <= Len(b) /\ 2 * n + 1 <= Len(b)
      BY <1>1, <1>10
    <3> QED
      BY <1>3, <1>5, <3>1
  <2>2. 2 * n \in Nat /\ 2 * n \in 1..Len(b) /\ 2 * n + 1 <= Len(b)
    BY <1>1, <1>10
  <2>3. 2 * n \in Pairs(b)
    BY <2>1, <2>2, StartsPair DEF Pairs
  <2>4. \A j \in Pairs(b) : j \in Nat /\ 2 * n <= j /\ (j = 2 * n => 2 = 2)
    BY <1>8
  <2>5. \A j \in Quads(b) : j \in Nat /\ 2 * n <= j /\ (j = 2 * n => 2 = 4)
    BY <1>1, <1>9
  <2>6. (2 = 2 /\ 2 * n \in Pairs(b)) \/ (2 = 4 /\ 2 * n \in Quads(b))
    BY <2>3
  <2> QED
    BY <2>2, <2>4, <2>5, <2>6, DelimiterFirst
<1>11. ASSUME Len(b) < 2 * n + 1 PROVE U!Delimiter(b) = <<0, 0>>
  <2>1. Pairs(b) = {}
    <3> SUFFICES ASSUME NEW j \in Pairs(b) PROVE FALSE
      OBVIOUS
    <3>1. j \in Nat /\ j + 1 <= Len(b)
      BY <1>8, StartsPair DEF Pairs
    <3> QED
      BY <1>1, <1>8, <1>11, <3>1
  <2>2. Quads(b) = {}
    <3> SUFFICES ASSUME NEW j \in Quads(b) PROVE FALSE
      OBVIOUS
    <3>1. j \in Nat /\ j \in 1..Len(b)
      BY <1>9 DEF Quads, U!Starts
    <3> QED
      BY <1>1, <1>9, <1>11, <3>1
  <2> QED
    BY <2>1, <2>2, DelimiterNone
<1> QED
  BY <1>3, <1>10, <1>11 DEF F, n

LEMMA BytesCRLF ==
  ASSUME NEW body \in Seq(U!Line)
  PROVE  LET F == U!Framed(body, <<"CR", "LF">>)
             n == Len(body)
         IN  /\ Len(F) = 3 * n + 2
             /\ \A k \in 0..n - 1 : F[3 * k + 1] = body[k + 1] /\ F[3 * k + 2] = "CR" /\ F[3 * k + 3] = "LF"
             /\ F[3 * n + 1] = "CR" /\ F[3 * n + 2] = "LF"
<1> DEFINE nl == <<"CR", "LF">>
           F == U!Framed(body, nl)
           n == Len(body)
<1>1. n \in Nat
  OBVIOUS
<1>3. /\ Len(F) = 3 * n + 2
      /\ \A k \in 0..n - 1 : F[3 * k + 1] = body[k + 1] /\ F[3 * k + 2] = "CR" /\ F[3 * k + 3] = "LF"
      /\ F[3 * n + 1] = "CR" /\ F[3 * n + 2] = "LF"
  <2>1. nl \in U!NewLine /\ Len(nl) = 2 /\ nl[1] = "CR" /\ nl[2] = "LF"
    BY DEF U!NewLine
  <2> HIDE DEF nl
  <2>2. /\ Len(F) = n * (2 + 1) + 2
        /\ \A k \in 0..n - 1 : F[k * (2 + 1) + 1] = body[k + 1]
        /\ \A k \in 0..n - 1, j \in 1..2 : F[k * (2 + 1) + 1 + j] = nl[j]
        /\ \A j \in 1..2 : F[n * (2 + 1) + j] = nl[j]
    <3>1. /\ Len(F) = n * (Len(nl) + 1) + Len(nl)
          /\ \A k \in 0..n - 1 : F[k * (Len(nl) + 1) + 1] = body[k + 1]
          /\ \A k \in 0..n - 1, j \in 1..Len(nl) : F[k * (Len(nl) + 1) + 1 + j] = nl[j]
          /\ \A j \in 1..Len(nl) : F[n * (Len(nl) + 1) + j] = nl[j]
      BY <2>1, FramedAt
    <3> HIDE DEF F, n
    <3> QED
      BY <2>1, <3>1
  <2> HIDE DEF F
  <2>3. 1 \in 1..2 /\ 2 \in 1..2 /\ \A k \in Nat : /\ k * (2 + 1) = 3 * k /\ k * (2 + 1) + 1 = 3 * k + 1
                                       /\ k * (2 + 1) + 1 + 1 = 3 * k + 2 /\ k * (2 + 1) + 1 + 2 = 3 * k + 3
    OBVIOUS
  <2>4. \A k \in 0..n - 1 : F[3 * k + 1] = body[k + 1]
    BY <1>1, <2>2, <2>3
  <2>5. \A k \in 0..n - 1 : F[3 * k + 2] = "CR" /\ F[3 * k + 3] = "LF"
    BY <1>1, <2>1, <2>2, <2>3
  <2>6. F[3 * n + 1] = "CR" /\ F[3 * n + 2] = "LF"
    BY <1>1, <2>1, <2>2, <2>3
  <2> QED
    BY <1>1, <2>1, <2>2, <2>3, <2>4, <2>5, <2>6
<1> QED
  BY <1>3

LEMMA FrameEndCRLF ==
  ASSUME NEW body \in Seq(U!Line) \ {<<>>}, NEW b \in Seq(Chr), StartsLike(b, U!Framed(body, <<"CR", "LF">>))
  PROVE  /\ Len(U!Framed(body, <<"CR", "LF">>)) = 3 * Len(body) + 2
         /\ Len(b) >= 3 * Len(body) + 2 => U!Delimiter(b) = <<3 * Len(body) - 1, 4>>
         /\ Len(b) < 3 * Len(body) + 2 => U!Delimiter(b) = <<0, 0>>
<1> DEFINE nl == <<"CR", "LF">>
           F == U!Framed(body, nl)
           n == Len(body)
<1>1. n \in Nat /\ n # 0 /\ Len(b) \in Nat
  BY EmptySeq
<1>2. \A k \in 1..n : body[k] # "LF" /\ body[k] # "CR"
  BY DEF U!Line
<1>3. /\ Len(F) = 3 * n + 2
      /\ \A k \in 0..n - 1 : F[3 * k + 1] = body[k + 1] /\ F[3 * k + 2] = "CR" /\ F[3 * k + 3] = "LF"
      /\ F[3 * n + 1] = "CR" /\ F[3 * n + 2] = "LF"
  BY BytesCRLF
<1> HIDE DEF F, n
<1>4. ASSUME NEW i \in 1..3 * n
      PROVE  \E k \in 0..n - 1 : i = 3 * k + 1 \/ i = 3 * k + 2 \/ i = 3 * k + 3
  <2>1. CASE i % 3 \in {1, 2}
    <3>1. (i \div 3) \in 0..n - 1 /\ (i = 3 * (i \div 3) + 1 \/ i = 3 * (i \div 3) + 2)
      BY <1>1, <2>1
    <3> QED
      BY <3>1
  <2>2. CASE i % 3 = 0
    <3>1. (i \div 3) - 1 \in 0..n - 1 /\ i = 3 * ((i \div 3) - 1) + 3
      BY <1>1, <2>2
    <3> QED
      BY <3>1
  <2> QED
    BY <2>1, <2>2
<1>5. \A i \in 1..3 * n + 2 : i <= Len(b) => b[i] = F[i]
  BY <1>3 DEF StartsLike, F
<1>6. ASSUME NEW k \in 0..n - 1, NEW i \in 1..3 * n, i = 3 * k + 1, i <= Len(b)
      PROVE  b[i] # "CR" /\ b[i] # "LF"
  <2>1. b[i] = F[i] /\ k + 1 \in 1..n
    BY <1>1, <1>5, <1>6, SMTT(20)
  <2> QED
    BY <1>2, <1>3, <1>6, <2>1
<1>7. ASSUME NEW j \in Pairs(b) PROVE j \in Nat /\ 3 * n + 2 <= j
  <2>1. j \in Nat /\ j \in 1..Len(b)
    BY <1>1 DEF Pairs, U!Starts
  <2>2. j + 1 <= Len(b) /\ b[j] = "LF" /\ b[j + 1] = "LF"
    BY <1>7, <2>1, StartsPair DEF Pairs
  <2> SUFFICES ASSUME j < 3 * n + 2 PROVE FALSE
    BY <1>1, <2>1
  <2>3. b[j] = F[j] /\ b[j + 1] = F[j + 1]
    BY <1>1, <1>5, <2>1, <2>2
  <2>4. CASE j = 3 * n + 1
    BY <1>3, <2>2, <2>3, <2>4
  <2>5. CASE j \in 1..3 * n
    <3>1. PICK k \in 0..n - 1 : j = 3 * k + 1 \/ j = 3 * k + 2 \/ j = 3 * k + 3
      BY <1>4, <2>5
    <3>2. k + 1 \in 1..n
      BY <1>1
    <3>3. CASE j = 3 * k + 1
      BY <1>2, <1>3, <2>2, <2>3, <3>2, <3>3
    <3>4. CASE j = 3 * k + 2
      BY <1>3, <2>2, <2>3, <3>4
    <3>5. CASE j = 3 * k + 3 /\ k + 1 \in 0..n - 1
      <4>1. j + 1 = 3 * (k + 1) + 1 /\ (k + 1) + 1 \in 1..n
        BY <1>1, <3>5
      <4> QED
        BY <1>2, <1>3, <2>2, <2>3, <3>5, <4>1
    <3>6. CASE j = 3 * k + 3 /\ k + 1 \notin 0..n - 1
      <4>1. j + 1 = 3 * n + 1
        BY <1>1, <3>6
      <4> QED
        BY <1>3, <2>2, <2>3, <4>1
    <3> QED
      BY <3>1, <3>3, <3>4, <3>5, <3>6
  <2> QED
    BY <1>1, <2>1, <2>4, <2>5
<1>8. ASSUME NEW j \in Quads(b) PROVE j \in Nat /\ 3 * n - 1 <= j
  <2>1. j \in Nat /\ j \in 1..Len(b)
    BY <1>1 DEF Quads, U!Starts
  <2>2. j + 3 <= Len(b) /\ b[j] = "CR" /\ b[j + 1] = "LF" /\ b[j + 2] = "CR"
    BY <1>8, <2>1, StartsQuad DEF Quads
  <2> SUFFICES ASSUME j < 3 * n - 1 PROVE FALSE
    BY <1>1, <2>1
  <2>3. b[j] = F[j] /\ b[j + 2] = F[j + 2] /\ j \in 1..3 * n
    <3>1. j \in 1..3 * n /\ j \in 1..3 * n + 2 /\ j + 2 \in 1..3 * n + 2 /\ j <= Len(b) /\ j + 2 <= Len(b)
      BY <1>1, <2>1, <2>2
    <3> QED
      BY <1>5, <3>1
  <2>4. PICK k \in 0..n - 1 : j = 3 * k + 1 \/ j = 3 * k + 2 \/ j = 3 * k + 3
    BY <1>4, <2>3
  <2>5. k + 1 \in 1..n
    BY <1>1
  <2>6. CASE j = 3 * k + 1
    BY <1>2, <1>3, <2>2, <2>3, <2>5, <2>6
  <2>7. CASE j = 3 * k + 2
    <3>1. j + 2 = 3 * (k + 1) + 1 /\ k + 1 \in 0..n - 1 /\ (k + 1) + 1 \in 1..n
      BY <1>1, <2>7
    <3> QED
      BY <1>2, <1>3, <2>2, <2>3, <2>5, <3>1
  <2>8. CASE j = 3 * k + 3
    BY <1>3, <2>2, <2>3, <2>8
  <2> QED
    BY <2>4, <2>6, <2>7, <2>8
<1>9. ASSUME Len(b) >= 3 * n + 2 PROVE U!Delimiter(b) = <<3 * n - 1, 4>>
  <2>1. b[3 * n - 1] = "CR" /\ b[3 * n - 1 + 1] = "LF" /\ b[3 * n - 1 + 2] = "CR" /\ b[3 * n - 1 + 3] = "LF"
    <3>1. n - 1 \in 0..n - 1 /\ 3 * (n - 1) + 2 = 3 * n - 1 /\ 3 * (n - 1) + 3 = 3 * n
          /\ 3 * n - 1 + 1 = 3 * n /\ 3 * n - 1 + 2 = 3 * n + 1 /\ 3 * n - 1 + 3 = 3 * n + 2
      BY <1>1
    <3>2. F[3 * n - 1] = "CR" /\ F[3 * n] = "LF" /\ F[3 * n + 1] = "CR" /\ F[3 * n + 2] = "LF"
      BY <1>3, <3>1
    <3>3. \A i \in {3 * n - 1, 3 * n, 3 * n + 1, 3 * n + 2} : i \in 1..3 * n + 2 /\ i <= Len(b)
      BY <1>1, <1>9
    <3> QED
      BY <1>5, <3>1, <3>2, <3>3
  <2>2. 3 * n - 1 \in Nat /\ 3 * n - 1 \in 1..Len(b) /\ 3 * n - 1 + 3 <= Len(b)
    BY <1>1, <1>9
  <2>3. (4 = 2 /\ 3 * n - 1 \in Pairs(b)) \/ (4 = 4 /\ 3 * n - 1 \in Quads(b))
    BY <2>1, <2>2, StartsQuad DEF Quads
  <2>4. \A j \in Pairs(b) : j \in Nat /\ 3 * n - 1 <= j /\ (j = 3 * n - 1 => 4 = 2)
    BY <1>1, <1>7
  <2>5. \A j \in Quads(b) : j \in Nat /\ 3 * n - 1 <= j /\ (j = 3 * n - 1 => 4 = 4)
    BY <1>8
  <2> QED
    BY <2>2, <2>3, <2>4, <2>5, DelimiterFirst
<1>10. ASSUME Len(b) < 3 * n + 2 PROVE U!Delimiter(b) = <<0, 0>>
  <2>1. Pairs(b) = {}
    <3> SUFFICES ASSUME NEW j \in Pairs(b) PROVE FALSE
      OBVIOUS
    <3>1. j \in Nat /\ j + 1 <= Len(b)
      BY <1>7, StartsPair DEF Pairs
    <3> QED
      BY <1>1, <1>7, <1>10, <3>1
  <2>2. Quads(b) = {}
    <3> SUFFICES ASSUME NEW j \in Quads(b) PROVE FALSE
      OBVIOUS
    <3>1. j \in Nat /\ j + 3 <= Len(b)
      BY <1>8, StartsQuad DEF Quads
    <3> QED
      BY <1>1, <1>8, <1>10, <3>1
  <2> QED
    BY <2>1, <2>2, DelimiterNone
<1> QED
  BY <1>3, <1>9, <1>10 DEF F, n

(* Bytes that no line of text follows: no delimiter *)
LEMMA NoFrame ==
  ASSUME NEW b \in Seq(Chr), Len(b) <= 1
  PROVE  U!Delimiter(b) = <<0, 0>>
<1>1. Pairs(b) = {}
  <2> SUFFICES ASSUME NEW j \in Pairs(b) PROVE FALSE
    OBVIOUS
  <2>1. j \in Nat /\ j \in 1..Len(b)
    BY LenProperties DEF Pairs, U!Starts
  <2>2. j + 1 <= Len(b)
    BY <2>1, StartsPair DEF Pairs
  <2> QED
    BY <2>1, <2>2, LenProperties
<1>2. Quads(b) = {}
  <2> SUFFICES ASSUME NEW j \in Quads(b) PROVE FALSE
    OBVIOUS
  <2>1. j \in Nat /\ j \in 1..Len(b)
    BY LenProperties DEF Quads, U!Starts
  <2>2. j + 3 <= Len(b)
    BY <2>1, StartsQuad DEF Quads
  <2> QED
    BY <2>1, <2>2, LenProperties
<1> QED
  BY <1>1, <1>2, DelimiterNone

Data(bytes) == {i \in DOMAIN bytes : bytes[i] \notin {"CR", "LF", "comment"}}

(* The lines of a body are in these bytes, with line ends only between them. *)
Spread(place, body, bytes) ==
  /\ place \in [1..Len(body) -> 1..Len(bytes)]
  /\ \A l, m \in 1..Len(body) : place[l] = place[m] => l = m
  /\ \A l \in 1..Len(body) : bytes[place[l]] = body[l]
  /\ \A i \in 1..Len(bytes) : bytes[i] \in {"CR", "LF"} \/ \E l \in 1..Len(body) : i = place[l]

(* Line ends make no difference to what a frame says. *)
LEMMA ParsedSpread ==
  ASSUME NEW body \in Seq(U!Line), NEW bytes \in Seq(Chr), NEW place, Spread(place, body, bytes)
  PROVE  U!Parsed(bytes) = U!Parsed(body)
<1> DEFINE A == Data(bytes)
           E == Data(body)
<1>1. A = {i \in 1..Len(bytes) : bytes[i] \notin {"CR", "LF", "comment"}}
      /\ E = {l \in 1..Len(body) : body[l] \notin {"CR", "LF", "comment"}}
  BY DEF Data
<1>2. \A l \in E : place[l] \in A /\ bytes[place[l]] = body[l] /\ l \in 1..Len(body)
  BY <1>1 DEF Spread
<1>3. ASSUME NEW i \in A PROVE \E l \in E : i = place[l]
  <2>1. i \in 1..Len(bytes) /\ bytes[i] \notin {"CR", "LF", "comment"}
    BY <1>1
  <2>2. PICK l \in 1..Len(body) : i = place[l]
    BY <2>1 DEF Spread
  <2>3. l \in E
    BY <1>1, <2>1, <2>2 DEF Spread
  <2> QED
    BY <2>2, <2>3
<1>4. U!Parsed(bytes) = IF A = {} THEN "comment"
                        ELSE IF \A i, j \in A : i = j THEN bytes[CHOOSE i \in A : TRUE] ELSE "bad"
  BY DEF U!Parsed, Data
<1>5. U!Parsed(body) = IF E = {} THEN "comment"
                       ELSE IF \A i, j \in E : i = j THEN body[CHOOSE i \in E : TRUE] ELSE "bad"
  BY DEF U!Parsed, Data
<1> HIDE DEF A, E
<1>6. CASE E = {}
  BY <1>3, <1>4, <1>5, <1>6
<1>7. CASE E # {} /\ \A i, j \in E : i = j
  <2>1. PICK l \in E : E = {l} /\ l = CHOOSE i \in E : TRUE
    BY <1>7
  <2>2. A = {place[l]}
    BY <1>2, <1>3, <2>1
  <2>3. (CHOOSE i \in A : TRUE) = place[l]
    BY <2>2
  <2>4. U!Parsed(bytes) = bytes[place[l]]
    BY <1>4, <2>2, <2>3
  <2>5. U!Parsed(body) = body[l]
    BY <1>5, <1>7, <2>1
  <2> QED
    BY <1>2, <2>1, <2>4, <2>5
<1>8. CASE \E i, j \in E : i # j
  <2>1. PICK i \in E, j \in E : i # j
    BY <1>8
  <2>2. place[i] \in A /\ place[j] \in A /\ place[i] # place[j]
    BY <1>2, <2>1 DEF Spread
  <2> QED
    BY <1>4, <1>5, <2>1, <2>2
<1> QED
  BY <1>6, <1>7, <1>8

LEMMA ParsedType ==
  ASSUME NEW bytes \in Seq(Chr)
  PROVE  U!Parsed(bytes) \in U!Line
<1> DEFINE A == Data(bytes)
<1>1. \A i \in A : bytes[i] \in U!Line
  BY DEF Data, Chr
<1>2. U!Parsed(bytes) = IF A = {} THEN "comment"
                        ELSE IF \A i, j \in A : i = j THEN bytes[CHOOSE i \in A : TRUE] ELSE "bad"
  BY DEF U!Parsed, Data
<1>3. "comment" \in U!Line /\ "bad" \in U!Line
  BY DEF U!Line
<1> HIDE DEF A
<1> QED
  BY <1>1, <1>2, <1>3

(* What the parser makes of bytes that begin like a frame *)
LEMMA FrameRead ==
  ASSUME NEW body \in Seq(U!Line) \ {<<>>}, NEW newline \in U!NewLine, NEW b \in Seq(Chr),
         StartsLike(b, U!Framed(body, newline))
  PROVE  LET F == U!Framed(body, newline)
             d == U!Delimiter(b)
         IN  /\ Len(F) \in Nat /\ Len(F) > 1
             /\ Len(b) < Len(F) => d = <<0, 0>>
             /\ Len(b) >= Len(F) =>
                  /\ d[1] \in Nat /\ d[2] \in Nat /\ d[1] # 0 /\ d[1] + d[2] = Len(F) + 1
                  /\ U!Parsed(SubSeq(b, 1, d[1] - 1)) = U!Parsed(body)
<1> DEFINE F == U!Framed(body, newline)
           n == Len(body)
           d == U!Delimiter(b)
<1>1. n \in Nat /\ n # 0 /\ Len(b) \in Nat
  BY EmptySeq
<1>2. CASE newline = <<"LF">>
  <2>1. Len(F) = 2 * n + 1 /\ (Len(b) < Len(F) => d = <<0, 0>>) /\ (Len(b) >= Len(F) => d = <<2 * n, 2>>)
    BY <1>2, FrameEndLF
  <2>2. ASSUME Len(b) >= Len(F)
        PROVE  U!Parsed(SubSeq(b, 1, 2 * n - 1)) = U!Parsed(body)
    <3> DEFINE bytes == SubSeq(b, 1, 2 * n - 1)
               place == [l \in 1..n |-> 2 * l - 1]
    <3>1. bytes \in Seq(Chr) /\ Len(bytes) = 2 * n - 1 /\ \A i \in 1..2 * n - 1 : bytes[i] = b[i]
      BY <1>1, <2>1, <2>2
    <3>2. place \in [1..n -> 1..2 * n - 1] /\ \A l \in 1..n : place[l] = 2 * l - 1
      BY <1>1
    <3>3. \A i \in 1..2 * n - 1 : b[i] = F[i]
      BY <1>1, <2>1, <2>2 DEF StartsLike
    <3>4. \A k \in 0..n - 1 : F[2 * k + 1] = body[k + 1] /\ F[2 * k + 2] = "LF"
      BY <1>2, BytesLF
    <3> HIDE DEF bytes, place, F, n
    <3>5. \A l \in 1..n : bytes[place[l]] = body[l]
      <4> SUFFICES ASSUME NEW l \in 1..n PROVE bytes[place[l]] = body[l]
        OBVIOUS
      <4>1. l - 1 \in 0..n - 1 /\ 2 * (l - 1) + 1 = 2 * l - 1 /\ (l - 1) + 1 = l /\ 2 * l - 1 \in 1..2 * n - 1
        BY <1>1
      <4> QED
        BY <3>1, <3>2, <3>3, <3>4, <4>1
    <3>6. ASSUME NEW i \in 1..2 * n - 1 PROVE bytes[i] \in {"CR", "LF"} \/ \E l \in 1..n : i = place[l]
      <4>1. CASE i % 2 = 1
        <5>1. (i \div 2) + 1 \in 1..n /\ i = 2 * ((i \div 2) + 1) - 1
          BY <1>1, <4>1
        <5> QED
          BY <3>2, <5>1
      <4>2. CASE i % 2 = 0
        <5>1. (i \div 2) - 1 \in 0..n - 1 /\ i = 2 * ((i \div 2) - 1) + 2
          BY <1>1, <4>2
        <5> QED
          BY <3>1, <3>3, <3>4, <5>1
      <4> QED
        BY <4>1, <4>2
    <3>7. \A l, m \in 1..n : place[l] = place[m] => l = m
      BY <3>2
    <3>8. Spread(place, body, bytes)
      BY <3>1, <3>2, <3>5, <3>6, <3>7 DEF Spread, n
    <3>9. U!Parsed(bytes) = U!Parsed(body)
      BY <3>1, <3>8, ParsedSpread
    <3> QED
      BY <3>9 DEF bytes
  <2> HIDE DEF F, n, d
  <2>3. Len(b) >= Len(F) => d[1] = 2 * n /\ d[2] = 2
    BY <2>1
  <2> QED
    BY <1>1, <2>1, <2>2, <2>3 DEF F, n, d
<1>3. CASE newline = <<"CR", "LF">>
  <2>1. Len(F) = 3 * n + 2 /\ (Len(b) < Len(F) => d = <<0, 0>>) /\ (Len(b) >= Len(F) => d = <<3 * n - 1, 4>>)
    BY <1>3, FrameEndCRLF
  <2>2. ASSUME Len(b) >= Len(F)
        PROVE  U!Parsed(SubSeq(b, 1, 3 * n - 1 - 1)) = U!Parsed(body)
    <3> DEFINE bytes == SubSeq(b, 1, 3 * n - 1 - 1)
               place == [l \in 1..n |-> 3 * l - 2]
    <3>1. bytes \in Seq(Chr) /\ Len(bytes) = 3 * n - 2 /\ \A i \in 1..3 * n - 2 : bytes[i] = b[i]
      BY <1>1, <2>1, <2>2
    <3>2. place \in [1..n -> 1..3 * n - 2] /\ \A l \in 1..n : place[l] = 3 * l - 2
      BY <1>1
    <3>3. \A i \in 1..3 * n - 2 : b[i] = F[i]
      BY <1>1, <2>1, <2>2 DEF StartsLike
    <3>4. \A k \in 0..n - 1 : F[3 * k + 1] = body[k + 1] /\ F[3 * k + 2] = "CR" /\ F[3 * k + 3] = "LF"
      BY <1>3, BytesCRLF
    <3> HIDE DEF bytes, place, F, n
    <3>5. \A l \in 1..n : bytes[place[l]] = body[l]
      <4> SUFFICES ASSUME NEW l \in 1..n PROVE bytes[place[l]] = body[l]
        OBVIOUS
      <4>1. l - 1 \in 0..n - 1 /\ 3 * (l - 1) + 1 = 3 * l - 2 /\ (l - 1) + 1 = l /\ 3 * l - 2 \in 1..3 * n - 2
        BY <1>1
      <4> QED
        BY <3>1, <3>2, <3>3, <3>4, <4>1
    <3>6. ASSUME NEW i \in 1..3 * n - 2 PROVE bytes[i] \in {"CR", "LF"} \/ \E l \in 1..n : i = place[l]
      <4>1. CASE i % 3 = 1
        <5>1. (i \div 3) + 1 \in 1..n /\ i = 3 * ((i \div 3) + 1) - 2
          BY <1>1, <4>1
        <5> QED
          BY <3>2, <5>1
      <4>2. CASE i % 3 = 2
        <5>1. (i \div 3) \in 0..n - 1 /\ i = 3 * (i \div 3) + 2
          BY <1>1, <4>2
        <5> QED
          BY <3>1, <3>3, <3>4, <5>1
      <4>3. CASE i % 3 = 0
        <5>1. (i \div 3) - 1 \in 0..n - 1 /\ i = 3 * ((i \div 3) - 1) + 3
          BY <1>1, <4>3
        <5> QED
          BY <3>1, <3>3, <3>4, <5>1
      <4> QED
        BY <4>1, <4>2, <4>3
    <3>7. \A l, m \in 1..n : place[l] = place[m] => l = m
      BY <3>2
    <3>8. Spread(place, body, bytes)
      BY <3>1, <3>2, <3>5, <3>6, <3>7 DEF Spread, n
    <3>9. U!Parsed(bytes) = U!Parsed(body)
      BY <3>1, <3>8, ParsedSpread
    <3> QED
      BY <3>9 DEF bytes
  <2> HIDE DEF F, n, d
  <2>3. Len(b) >= Len(F) => d[1] = 3 * n - 1 /\ d[2] = 4
    BY <2>1
  <2> QED
    BY <1>1, <2>1, <2>2, <2>3 DEF F, n, d
<1> QED
  BY <1>2, <1>3, NewLines

(* A stream as bytes, and where its frames end *)
WellMade(x) ==
  /\ x.frames \in Seq(Seq(U!Line) \ {<<>>})
  /\ x.newline \in U!NewLine
  /\ x.tail \in {<<>>, <<"LF">>, <<"output">>}

Wires(x) == [i \in DOMAIN x.frames |-> U!Framed(x.frames[i], x.newline)]
Stream(x) == U!FlattenSeq(Wires(x)) \o x.tail
Cut(x, k) == At(Wires(x), k)

LEMMA WiresType ==
  ASSUME NEW x, WellMade(x)
  PROVE  /\ Len(x.frames) \in Nat
         /\ Wires(x) \in Seq(Seq(Chr)) /\ Len(Wires(x)) = Len(x.frames)
         /\ \A k \in 1..Len(x.frames) : /\ x.frames[k] \in Seq(U!Line) \ {<<>>}
                                        /\ Wires(x)[k] = U!Framed(x.frames[k], x.newline)
         /\ x.tail \in Seq(Chr) /\ Len(x.tail) <= 1
<1> DEFINE n == Len(x.frames)
<1>1. n \in Nat /\ DOMAIN x.frames = 1..n /\ \A k \in 1..n : x.frames[k] \in Seq(U!Line) \ {<<>>}
  BY DEF WellMade
<1>2. \A k \in 1..n : U!Framed(x.frames[k], x.newline) \in Seq(Chr)
  BY <1>1, FramedAt DEF WellMade
<1>3. Wires(x) \in Seq(Seq(Chr)) /\ Len(Wires(x)) = n /\ \A k \in 1..n : Wires(x)[k] = U!Framed(x.frames[k], x.newline)
  BY <1>1, <1>2 DEF Wires
<1>4. x.tail \in Seq(Chr) /\ Len(x.tail) <= 1
  <2>1. CASE x.tail = <<>>
    BY <2>1
  <2>2. CASE x.tail = <<"LF">>
    <3>1. "LF" \in Chr BY DEF Chr
    <3> QED BY <2>2, <3>1
  <2>3. CASE x.tail = <<"output">>
    <3>1. "output" \in Chr BY DEF Chr, U!Line
    <3> QED BY <2>3, <3>1
  <2> QED
    BY <2>1, <2>2, <2>3 DEF WellMade
<1> QED
  BY <1>1, <1>3, <1>4

LEMMA CutType ==
  ASSUME NEW x, WellMade(x)
  PROVE  /\ Cut(x, 0) = 0 /\ \A k \in 0..Len(x.frames) : Cut(x, k) \in Nat
         /\ Stream(x) \in Seq(Chr) /\ Len(Stream(x)) = Cut(x, Len(x.frames)) + Len(x.tail)
         /\ Len(x.tail) \in 0..1
<1> DEFINE ss == Wires(x)
           n == Len(x.frames)
           W == U!FlattenSeq(ss)
<1>1. n \in Nat /\ ss \in Seq(Seq(Chr)) /\ Len(ss) = n /\ x.tail \in Seq(Chr) /\ Len(x.tail) <= 1
  BY WiresType
<1>2. SubSeq(ss, 1, n) = ss /\ SubSeq(ss, 1, 0) = <<>>
  BY <1>1
<1>3. W \in Seq(Chr)
  BY <1>1, FlattenType
<1>4. Cut(x, 0) = 0
  BY <1>2, FlattenAppend DEF Cut, At, U!FlattenSeq
<1>5. Cut(x, n) = Len(W)
  BY <1>2 DEF Cut, At
<1>6. ASSUME NEW k \in 0..n PROVE Cut(x, k) \in Nat
  <2>1. SubSeq(ss, 1, k) \in Seq(Seq(Chr))
    <3> HIDE DEF ss, n
    <3> QED
      BY <1>1
  <2>2. U!FlattenSeq(SubSeq(ss, 1, k)) \in Seq(Chr)
    BY <2>1, FlattenType
  <2> QED
    BY <2>2, LenProperties DEF Cut, At
<1>7. W \o x.tail \in Seq(Chr) /\ Len(W \o x.tail) = Len(W) + Len(x.tail) /\ Len(x.tail) \in Nat
  <2> HIDE DEF W
  <2> QED
    BY <1>1, <1>3, ConcatAt
<1>8. Stream(x) = W \o x.tail
  BY DEF Stream
<1>9. Len(x.tail) \in 0..1
  <2> DEFINE t == Len(x.tail)
  <2>1. t \in Nat /\ t <= 1
    BY <1>1, <1>7
  <2> HIDE DEF t
  <2>2. t \in 0..1
    BY <2>1
  <2> QED
    BY <2>2 DEF t
<1> HIDE DEF W
<1> QED
  BY <1>4, <1>5, <1>6, <1>7, <1>8, <1>9

(* The next frame lies between two cuts. *)
LEMMA CutNext ==
  ASSUME NEW x, WellMade(x), NEW k \in Nat, k < Len(x.frames)
  PROVE  LET F == U!Framed(x.frames[k + 1], x.newline)
         IN  /\ F \in Seq(Chr) /\ Len(F) > 1
             /\ Cut(x, k) \in Nat /\ Cut(x, k + 1) \in Nat
             /\ Cut(x, k + 1) = Cut(x, k) + Len(F) /\ Cut(x, k + 1) <= Len(Stream(x))
             /\ \A j \in 1..Len(F) : Stream(x)[Cut(x, k) + j] = F[j]
<1> DEFINE ss == Wires(x)
           n == Len(x.frames)
           W == U!FlattenSeq(ss)
           F == U!Framed(x.frames[k + 1], x.newline)
<1>1. n \in Nat /\ ss \in Seq(Seq(Chr)) /\ Len(ss) = n /\ x.tail \in Seq(Chr)
      /\ x.frames[k + 1] \in Seq(U!Line) \ {<<>>} /\ ss[k + 1] = F
  <2>1. k + 1 \in 1..n
    BY WiresType
  <2> QED
    BY <2>1, WiresType
<1>2. SubSeq(ss, 1, n) = ss
  BY <1>1
<1>3. W \in Seq(Chr)
  BY <1>1, FlattenType
<1>4. Cut(x, n) = Len(W) /\ Len(Stream(x)) = Cut(x, n) + Len(x.tail) /\ Len(x.tail) \in 0..1 /\ Cut(x, n) \in Nat
  <2>1. Cut(x, n) = Len(W)
    BY <1>2 DEF Cut, At
  <2>2. n \in 0..n
    BY <1>1
  <2> QED
    BY <2>1, <2>2, CutType
<1>5. F \in Seq(Chr) /\ Len(F) > 1
  <2>1. StartsLike(F, F)
    BY DEF StartsLike
  <2>2. F \in Seq(Chr)
    BY <1>1, FramedAt DEF WellMade
  <2> QED
    BY <1>1, <2>1, <2>2, FrameRead DEF WellMade
<1>6. /\ At(ss, k) \in Nat /\ At(ss, k + 1) <= At(ss, n)
      /\ At(ss, k + 1) = At(ss, k) + Len(ss[k + 1])
      /\ \A j \in 1..Len(ss[k + 1]) : U!FlattenSeq(SubSeq(ss, 1, n))[At(ss, k) + j] = ss[k + 1][j]
  <2>1. n \in 0..Len(ss) /\ k < n
    BY <1>1
  <2> HIDE DEF ss, n
  <2> QED
    BY <1>1, <2>1, FlattenPlace
<1>7. ASSUME NEW j \in 1..Len(F) PROVE Stream(x)[Cut(x, k) + j] = F[j]
  <2>1. W[Cut(x, k) + j] = F[j]
    BY <1>1, <1>2, <1>6 DEF Cut
  <2>2. Len(F) \in Nat
    BY <1>5
  <2>3. Cut(x, k) + j \in 1..Len(W)
    <3>1. Cut(x, k) \in Nat /\ Cut(x, k) + Len(F) <= Cut(x, n)
      BY <1>1, <1>6 DEF Cut
    <3> HIDE DEF F, n, W
    <3> QED
      BY <1>4, <2>2, <3>1
  <2>4. \A i \in 1..Len(W) : (W \o x.tail)[i] = W[i]
    <3> HIDE DEF W
    <3> QED
      BY <1>1, <1>3, ConcatAt
  <2> QED
    BY <2>1, <2>3, <2>4 DEF Stream
<1>8. Len(F) \in Nat
  BY <1>5
<1>9. Cut(x, k) \in Nat /\ Cut(x, k + 1) = Cut(x, k) + Len(F) /\ Cut(x, k + 1) <= Len(Stream(x))
  <2>1. Cut(x, k) \in Nat /\ Cut(x, k + 1) = Cut(x, k) + Len(F) /\ Cut(x, k + 1) <= Cut(x, n)
    BY <1>1, <1>6 DEF Cut
  <2> HIDE DEF F, n
  <2> QED
    BY <1>4, <1>8, <2>1
<1> HIDE DEF F
<1>10. Cut(x, k + 1) \in Nat
  BY <1>8, <1>9
<1> QED
  BY <1>5, <1>7, <1>9, <1>10 DEF F

Unread(x, k, g) == SubSeq(Stream(x), Cut(x, k) + 1, g)

(* What is in the buffer of the first g bytes, when k frames were taken: without an
   end of a frame there is no delimiter in it, with one the next frame comes first. *)
LEMMA UnreadAt ==
  ASSUME NEW x, WellMade(x), NEW k \in 0..Len(x.frames), NEW g \in Cut(x, k)..Len(Stream(x))
  PROVE  /\ Unread(x, k, g) \in Seq(Chr) /\ Len(Unread(x, k, g)) = g - Cut(x, k)
         /\ \A i \in 1..g - Cut(x, k) : Unread(x, k, g)[i] = Stream(x)[Cut(x, k) + i]
<1>1. Cut(x, k) \in Nat /\ Stream(x) \in Seq(Chr) /\ g \in Nat
  BY CutType
<1> DEFINE s == Stream(x)
           c == Cut(x, k)
<1> HIDE DEF s, c
<1>2. c \in Nat /\ s \in Seq(Chr) /\ g \in c..Len(s)
  BY <1>1 DEF c, s
<1>3. SubSeq(s, c + 1, g) \in Seq(Chr) /\ Len(SubSeq(s, c + 1, g)) = g - c
  BY <1>1, <1>2
<1>4. ASSUME NEW i \in 1..g - c PROVE SubSeq(s, c + 1, g)[i] = s[c + i]
  BY <1>1, <1>2
<1> QED
  BY <1>3, <1>4 DEF Unread, s, c

LEMMA UnreadNone ==
  ASSUME NEW x, WellMade(x), NEW k \in 0..Len(x.frames), NEW g \in Cut(x, k)..Len(Stream(x)),
         k = Len(x.frames) \/ g < Cut(x, k + 1)
  PROVE  U!Delimiter(Unread(x, k, g)) = <<0, 0>>
<1> DEFINE b == Unread(x, k, g)
<1>1. b \in Seq(Chr) /\ Len(b) = g - Cut(x, k) /\ \A i \in 1..g - Cut(x, k) : b[i] = Stream(x)[Cut(x, k) + i]
  BY UnreadAt
<1>2. Cut(x, k) \in Nat /\ Len(x.frames) \in Nat
  BY CutType, WiresType
<1>3. CASE k = Len(x.frames)
  <2>1. Len(b) <= 1
    <3>1. g <= Cut(x, k) + Len(x.tail) /\ Len(x.tail) \in 0..1
      BY <1>2, <1>3, CutType
    <3> DEFINE t == Len(x.tail)
               c == Cut(x, k)
               m == Len(b)
    <3>2. g \in c..Len(Stream(x)) /\ m = g - c /\ c \in Nat /\ g <= c + t /\ t \in 0..1 /\ Len(Stream(x)) \in Nat
      BY <1>1, <1>2, <3>1, CutType, LenProperties
    <3> HIDE DEF t, c, m
    <3>3. m <= 1
      BY <3>2
    <3> QED
      BY <3>3 DEF m
  <2> QED
    BY <1>1, <2>1, NoFrame
<1>4. CASE k < Len(x.frames) /\ g < Cut(x, k + 1)
  <2> DEFINE F == U!Framed(x.frames[k + 1], x.newline)
             body == x.frames[k + 1]
  <2>1. body \in Seq(U!Line) \ {<<>>} /\ x.newline \in U!NewLine
    BY <1>2, <1>4, WiresType DEF WellMade
  <2>2. Cut(x, k + 1) = Cut(x, k) + Len(F) /\ \A j \in 1..Len(F) : Stream(x)[Cut(x, k) + j] = F[j]
    BY <1>2, <1>4, CutNext, SMTT(20)
  <2>3. F \in Seq(Chr)
    BY <1>2, <1>4, CutNext
  <2>4. Len(F) \in Nat
    BY <2>3
  <2> HIDE DEF b, F
  <2>5. Len(b) < Len(F)
    BY <1>1, <1>2, <1>4, <2>2, <2>4
  <2>6. StartsLike(b, F)
    <3> SUFFICES ASSUME NEW i \in 1..Len(F), i <= Len(b) PROVE b[i] = F[i]
      BY DEF StartsLike
    <3>1. i \in 1..g - Cut(x, k)
      BY <1>1, <1>2, <2>4
    <3> QED
      BY <1>1, <2>2, <3>1
  <2> USE DEF b, F
  <2> QED
    BY <1>1, <2>1, <2>5, <2>6, FrameRead
<1> QED
  BY <1>2, <1>3, <1>4

LEMMA UnreadFrame ==
  ASSUME NEW x, WellMade(x), NEW k \in Nat, k < Len(x.frames), NEW g \in Cut(x, k + 1)..Len(Stream(x))
  PROVE  LET b == Unread(x, k, g)
             d == U!Delimiter(b)
         IN  /\ d[1] \in Nat /\ d[2] \in Nat /\ d[1] # 0 /\ d[1] + d[2] = Cut(x, k + 1) - Cut(x, k) + 1
             /\ U!Parsed(SubSeq(b, 1, d[1] - 1)) = U!Parsed(x.frames[k + 1])
<1> DEFINE b == Unread(x, k, g)
           F == U!Framed(x.frames[k + 1], x.newline)
           body == x.frames[k + 1]
<1>1. Cut(x, k) \in Nat /\ Len(x.frames) \in Nat /\ Cut(x, k + 1) \in Nat /\ k + 1 \in 1..Len(x.frames)
      /\ k \in 0..Len(x.frames)
  BY CutType, WiresType
<1>2. body \in Seq(U!Line) \ {<<>>} /\ x.newline \in U!NewLine
  BY <1>1, WiresType DEF WellMade
<1>3. Cut(x, k + 1) = Cut(x, k) + Len(F) /\ F \in Seq(Chr)
      /\ \A j \in 1..Len(F) : Stream(x)[Cut(x, k) + j] = F[j]
  BY <1>1, CutNext
<1>4. Len(F) \in Nat /\ Len(Stream(x)) \in Nat
  BY <1>3, CutType, LenProperties
<1>5. g \in Cut(x, k)..Len(Stream(x)) /\ g >= Cut(x, k) + Len(F) /\ g \in Nat
  <2> HIDE DEF F
  <2> QED
    BY <1>1, <1>3, <1>4
<1>6. b \in Seq(Chr) /\ Len(b) = g - Cut(x, k) /\ \A i \in 1..g - Cut(x, k) : b[i] = Stream(x)[Cut(x, k) + i]
  BY <1>1, <1>5, UnreadAt
<1>7. Len(b) >= Len(F) /\ StartsLike(b, F) /\ Len(F) = Cut(x, k + 1) - Cut(x, k)
  <2> HIDE DEF b, F
  <2>1. Len(b) >= Len(F) /\ Len(F) = Cut(x, k + 1) - Cut(x, k)
    <3> DEFINE c == Cut(x, k)
               c1 == Cut(x, k + 1)
               m == Len(b)
               f == Len(F)
    <3>1. c \in Nat /\ c1 \in Nat /\ c1 = c + f /\ f \in Nat /\ g >= c + f /\ g \in Nat /\ m = g - c
      BY <1>1, <1>3, <1>4, <1>5, <1>6
    <3> HIDE DEF c, c1, m, f
    <3>2. m >= f /\ f = c1 - c
      BY <3>1
    <3> QED
      BY <3>2 DEF c, c1, m, f
  <2>2. ASSUME NEW i \in 1..Len(F), i <= Len(b) PROVE b[i] = F[i]
    <3>1. i \in 1..g - Cut(x, k)
      BY <1>1, <1>4, <1>5, <1>6, <2>2
    <3> QED
      BY <1>3, <1>6, <3>1
  <2> QED
    BY <2>1, <2>2 DEF StartsLike
<1> QED
  BY <1>2, <1>6, <1>7, FrameRead

(* A delimiter lies within the bytes. *)
LEMMA DelimiterIs ==
  ASSUME NEW b \in Seq(Chr)
  PROVE  LET d == U!Delimiter(b)
         IN  \/ d[1] = 0
             \/ d[1] \in Nat \ {0} /\ d[2] \in Nat \ {0} /\ d[1] + d[2] - 1 <= Len(b)
<1> DEFINE ends == {<<j, 2>> : j \in Pairs(b)} \cup {<<j, 4>> : j \in Quads(b)}
           d == U!Delimiter(b)
           T == Pairs(b) \cup Quads(b)
<1>1. d = IF ends = {} THEN <<0, 0>> ELSE CHOOSE e \in ends : \A f \in ends : e[1] <= f[1]
  BY DEF U!Delimiter, Pairs, Quads
<1>2. Len(b) \in Nat
  OBVIOUS
<1>3. ASSUME NEW j \in Pairs(b) PROVE j \in Nat \ {0} /\ j + 2 - 1 <= Len(b)
  <2>1. j \in 1..Len(b)
    BY DEF Pairs, U!Starts
  <2>2. j + 1 <= Len(b)
    BY <1>2, <2>1, StartsPair DEF Pairs
  <2> QED
    BY <1>2, <2>1, <2>2
<1>4. ASSUME NEW j \in Quads(b) PROVE j \in Nat \ {0} /\ j + 4 - 1 <= Len(b)
  <2>1. j \in 1..Len(b)
    BY DEF Quads, U!Starts
  <2>2. j + 3 <= Len(b)
    BY <1>2, <2>1, StartsQuad DEF Quads
  <2> QED
    BY <1>2, <2>1, <2>2
<1>5. \A e \in ends : /\ e[1] \in T /\ e[1] \in Nat \ {0}
                      /\ e[2] \in Nat \ {0} /\ e[1] + e[2] - 1 <= Len(b)
  BY <1>3, <1>4
<1>6. CASE ends = {}
  BY <1>1, <1>6
<1>7. CASE ends # {}
  <2>1. T # {} /\ T \subseteq Nat
    BY <1>3, <1>4, <1>7
  <2>2. PICK i \in T : \A j \in T : i <= j
    BY <2>1, Least
  <2>3. \E e \in ends : e[1] = i
    <3>1. CASE i \in Pairs(b)
      <4>1. <<i, 2>> \in ends /\ <<i, 2>>[1] = i
        BY <3>1
      <4> QED
        BY <4>1
    <3>2. CASE i \in Quads(b)
      <4>1. <<i, 4>> \in ends /\ <<i, 4>>[1] = i
        BY <3>2
      <4> QED
        BY <4>1
    <3> QED
      BY <3>1, <3>2
  <2>4. \E e \in ends : \A f \in ends : e[1] <= f[1]
    <3> HIDE DEF ends, T
    <3> QED
      BY <1>5, <2>2, <2>3
  <2> HIDE DEF ends
  <2>5. d \in ends
    BY <1>1, <1>7, <2>4
  <2> QED
    BY <1>5, <2>5
<1> QED
  BY <1>6, <1>7

(* The loop over next_frame, from one position *)
Round(b, from, i) ==
  LET rest == SubSeq(b, i, Len(b))
      d == U!Delimiter(rest)
      frame == U!Parsed(SubSeq(rest, 1, d[1] - 1))
  IN  IF d[1] = 0 THEN [found |-> <<>>, rest |-> rest]
      ELSE IF frame = "bad" THEN [found |-> <<frame>>, rest |-> <<>>]
      ELSE LET more == from[i + d[1] + d[2] - 1] IN [more EXCEPT !.found = <<frame>> \o @]

LEMMA RoundAgree ==
  ASSUME NEW b \in Seq(Chr), NEW i \in 1..Len(b) + 1, NEW f, NEW g,
         \A j \in i + 1..Len(b) + 1 : f[j] = g[j]
  PROVE  Round(b, f, i) = Round(b, g, i)
<1> DEFINE rest == SubSeq(b, i, Len(b))
           d == U!Delimiter(rest)
<1>1. Len(b) \in Nat /\ i \in Nat
  OBVIOUS
<1>2. rest \in Seq(Chr) /\ Len(rest) = Len(b) - i + 1
  BY <1>1
<1>3. d[1] = 0 \/ (d[1] \in Nat \ {0} /\ d[2] \in Nat \ {0} /\ d[1] + d[2] - 1 <= Len(rest))
  BY <1>2, DelimiterIs
<1> HIDE DEF rest, d
<1>4. d[1] # 0 => i + d[1] + d[2] - 1 \in i + 1..Len(b) + 1
  <2> SUFFICES ASSUME d[1] # 0 PROVE i + d[1] + d[2] - 1 \in i + 1..Len(b) + 1
    OBVIOUS
  <2> DEFINE p == d[1]
             q == d[2]
             m == Len(b)
  <2>1. p \in Nat /\ p # 0 /\ q \in Nat /\ q # 0 /\ p + q - 1 <= m - i + 1 /\ m \in Nat /\ i \in Nat
    BY <1>1, <1>2, <1>3
  <2> HIDE DEF p, q, m
  <2>2. i + p + q - 1 \in i + 1..m + 1
    BY <2>1
  <2> QED
    BY <2>2 DEF p, q, m
<1>5. d[1] # 0 => f[i + d[1] + d[2] - 1] = g[i + d[1] + d[2] - 1]
  BY <1>4
<1> QED
  BY <1>5 DEF Round, rest, d

Looped(f, b, k) == f = [i \in k..Len(b) + 1 |-> Round(b, f, i)]

LEMMA LoopGrows ==
  ASSUME NEW b \in Seq(Chr), NEW k \in 2..Len(b) + 2, NEW f, Looped(f, b, k)
  PROVE  \E g : Looped(g, b, k - 1)
<1> DEFINE N == Len(b) + 1
           l == k - 1
           g == [i \in l..N |-> IF i = l THEN Round(b, f, l) ELSE f[i]]
<1>1. N \in Nat /\ k \in Nat /\ l \in 1..N /\ l + 1 = k
  OBVIOUS
<1>2. \A i \in k..N : f[i] = Round(b, f, i)
  BY DEF Looped
<1>3. DOMAIN g = l..N /\ g = [i \in l..N |-> g[i]] /\ \A i \in l..N : g[i] = IF i = l THEN Round(b, f, l) ELSE f[i]
  OBVIOUS
<1> HIDE DEF g, l, N
<1>4. \A i \in k..N : g[i] = f[i] /\ i \in l..N /\ i # l
  BY <1>1, <1>3
<1>5. ASSUME NEW i \in l..N PROVE g[i] = Round(b, g, i)
  <2>1. \A j \in i + 1..N : f[j] = g[j]
    BY <1>1, <1>4
  <2>2. Round(b, f, i) = Round(b, g, i)
    BY <1>1, <2>1, RoundAgree DEF N
  <2>3. CASE i = l
    BY <1>3, <2>2, <2>3
  <2>4. CASE i # l
    <3>1. i \in k..N
      BY <1>1, <2>4
    <3> QED
      BY <1>2, <1>4, <2>2, <3>1
  <2> QED
    BY <2>3, <2>4
<1>6. Looped(g, b, l)
  BY <1>3, <1>5 DEF Looped, N
<1> QED
  BY <1>6 DEF l

(* The recursion over the positions is well defined. *)
LEMMA LoopIs ==
  ASSUME NEW b \in Seq(Chr)
  PROVE  \E f : /\ U!Frames(b) = f[1]
                /\ \A i \in 1..Len(b) + 1 : f[i] = Round(b, f, i)
<1> DEFINE c == CHOOSE f : Looped(f, b, 1)
           T == {k \in Nat : \E f : Looped(f, b, k)}
           N == Len(b) + 2
<1>1. N \in Nat /\ N - 1 = Len(b) + 1
  OBVIOUS
<1>2. N \in T
  <2>1. \A i \in N..Len(b) + 1 : FALSE
    BY <1>1
  <2> DEFINE e == [i \in N..Len(b) + 1 |-> b]
  <2>2. Looped(e, b, N)
    BY <2>1 DEF Looped
  <2> QED
    BY <1>1, <2>2
<1>3. ASSUME NEW k \in 1..N, k \in T, 1 < k PROVE k - 1 \in T
  <2>1. PICK f : Looped(f, b, k)
    BY <1>3
  <2>2. k \in 2..Len(b) + 2 /\ k - 1 \in Nat
    BY <1>1, <1>3
  <2>3. \E g : Looped(g, b, k - 1)
    BY <2>1, <2>2, LoopGrows
  <2> QED
    BY <2>2, <2>3
<1>4. \A k \in T : \E f : Looped(f, b, k)
  OBVIOUS
<1> HIDE DEF T, N
<1>5. \A k \in 1..N : k \in T /\ 1 < k => k - 1 \in T
  BY <1>3
<1>6. \A k \in 1..N : k \in T
  BY <1>1, <1>2, <1>5, DownFrom
<1>7. 1 \in T
  <2>1. 1 \in 1..N
    BY <1>1, LenProperties DEF N
  <2> QED
    BY <1>6, <2>1
<1>8. Looped(c, b, 1)
  BY <1>4, <1>7
<1>9. U!Frames(b) = c[1]
  BY DEF U!Frames, Looped, Round
<1> HIDE DEF c
<1>10. \A i \in 1..Len(b) + 1 : c[i] = Round(b, c, i)
  BY <1>8 DEF Looped
<1> QED
  BY <1>9, <1>10

(* Frames end in the order in which they were sent. *)
LEMMA CutGrows ==
  ASSUME NEW x, WellMade(x), NEW m \in 0..Len(x.frames), NEW k \in 0..m
  PROVE  Cut(x, k) \in Nat /\ Cut(x, m) \in Nat /\ Cut(x, k) <= Cut(x, m)
<1>1. Len(x.frames) \in Nat /\ Wires(x) \in Seq(Seq(Chr)) /\ Len(Wires(x)) = Len(x.frames)
  BY WiresType
<1>2. k \in Nat /\ m \in Nat /\ k <= m /\ k \in 0..Len(x.frames) /\ m \in 0..Len(Wires(x))
  BY <1>1
<1>3. Cut(x, k) \in Nat /\ Cut(x, m) \in Nat
  BY <1>2, CutType
<1>4. CASE k = m
  BY <1>3, <1>4
<1>5. CASE k < m
  <2>1. k < Len(x.frames)
    BY <1>1, <1>2, <1>5
  <2>2. Cut(x, k + 1) <= Cut(x, m)
    BY <1>1, <1>2, <1>5, FlattenPlace DEF Cut
  <2>3. Cut(x, k + 1) = Cut(x, k) + Len(U!Framed(x.frames[k + 1], x.newline)) /\ Cut(x, k + 1) \in Nat
        /\ Len(U!Framed(x.frames[k + 1], x.newline)) > 1
        /\ U!Framed(x.frames[k + 1], x.newline) \in Seq(Chr)
    BY <1>2, <2>1, CutNext
  <2> DEFINE f == Len(U!Framed(x.frames[k + 1], x.newline))
  <2>4. f \in Nat
    BY <2>3, LenProperties
  <2> HIDE DEF f
  <2> QED
    BY <1>3, <2>2, <2>3, <2>4 DEF f
<1> QED
  BY <1>2, <1>4, <1>5

LEMMA UnreadRest ==
  ASSUME NEW x, WellMade(x), NEW k \in 0..Len(x.frames), NEW j \in k..Len(x.frames),
         NEW g \in Cut(x, j)..Len(Stream(x))
  PROVE  LET b == Unread(x, k, g)
             p == Cut(x, j) - Cut(x, k) + 1
         IN  SubSeq(b, p, Len(b)) = Unread(x, j, g) /\ p \in 1..Len(b) + 1
<1> DEFINE b == Unread(x, k, g)
           a == Cut(x, k)
           c == Cut(x, j)
           p == c - a + 1
           S == Stream(x)
           u == Unread(x, j, g)
           v == SubSeq(b, p, Len(b))
<1>1. a \in Nat /\ c \in Nat /\ a <= c /\ Len(S) \in Nat /\ j \in 0..Len(x.frames)
  <2>1. Len(x.frames) \in Nat
    BY WiresType
  <2>2. j \in 0..Len(x.frames) /\ k \in 0..j
    BY <2>1
  <2> QED
    BY <2>2, CutGrows, CutType, LenProperties
<1>2. g \in a..Len(S) /\ g \in Nat /\ g >= c
  <2>1. g \in c..Len(S)
    OBVIOUS
  <2> HIDE DEF a, c, S
  <2> QED
    BY <1>1, <2>1
<1>3. b \in Seq(Chr) /\ Len(b) = g - a /\ \A i \in 1..g - a : b[i] = S[a + i]
  BY <1>2, UnreadAt
<1>4. u \in Seq(Chr) /\ Len(u) = g - c /\ \A i \in 1..g - c : u[i] = S[c + i]
  BY <1>1, UnreadAt
<1> HIDE DEF a, c, S, b, u
<1>5. p \in 1..Len(b) + 1
  BY <1>1, <1>2, <1>3
<1>6. v \in Seq(Chr) /\ Len(v) = g - c /\ \A i \in 1..g - c : v[i] = b[p + i - 1]
  BY <1>1, <1>2, <1>3
<1>7. ASSUME NEW i \in 1..g - c PROVE v[i] = u[i]
  <2>1. p + i - 1 \in 1..g - a /\ a + (p + i - 1) = c + i
    BY <1>1, <1>2
  <2> QED
    BY <1>3, <1>4, <1>6, <2>1
<1> HIDE DEF v
<1>8. v = u
  <2>1. Len(v) = Len(u) /\ \A i \in 1..Len(v) : v[i] = u[i]
    BY <1>4, <1>6, <1>7
  <2> QED
    BY <1>4, <1>6, <2>1, SeqEqual
<1> QED
  BY <1>5, <1>8 DEF v, u, b, p, a, c

-----------------------------------------------------------------------------
Says(x, i) == U!Parsed(x.frames[i])
Heard(x, j, m) == [i \in 1..m - j |-> Says(x, j + i)]

LEMMA SaysType ==
  ASSUME NEW x, WellMade(x), NEW i \in 1..Len(x.frames)
  PROVE  Says(x, i) \in U!Line
<1>1. x.frames[i] \in Seq(U!Line)
  BY WiresType
<1>2. x.frames[i] \in Seq(Chr)
  BY <1>1, SeqMonotonic DEF Chr
<1> QED
  BY <1>2, ParsedType DEF Says

LEMMA HeardType ==
  ASSUME NEW x, WellMade(x), NEW m \in 0..Len(x.frames), NEW j \in 0..m
  PROVE  /\ Heard(x, j, m) \in Seq(U!Line) /\ Len(Heard(x, j, m)) = m - j
         /\ \A i \in 1..m - j : Heard(x, j, m)[i] = Says(x, j + i)
<1>1. Len(x.frames) \in Nat
  BY WiresType
<1>2. ASSUME NEW i \in 1..m - j PROVE Says(x, j + i) \in U!Line
  <2>1. j + i \in 1..Len(x.frames)
    BY <1>1
  <2> QED
    BY <2>1, SaysType
<1>3. m - j \in Nat
  BY <1>1
<1>4. \A i \in 1..m - j : Says(x, j + i) \in U!Line
  BY <1>2
<1> QED
  BY <1>3, <1>4 DEF Heard

LEMMA HeardJoins ==
  ASSUME NEW x, WellMade(x), NEW m \in 0..Len(x.frames), NEW j \in 0..m, NEW k \in 0..j
  PROVE  Heard(x, k, m) = Heard(x, k, j) \o Heard(x, j, m)
<1> DEFINE s == Heard(x, k, j)
           t == Heard(x, j, m)
           u == Heard(x, k, m)
           L == U!Line
<1>1. Len(x.frames) \in Nat
  BY WiresType
<1>2. j \in 0..Len(x.frames) /\ k \in 0..m /\ j \in Nat /\ k \in Nat /\ m \in Nat /\ k <= j /\ j <= m
  BY <1>1
<1>3. s \in Seq(L) /\ Len(s) = j - k /\ \A i \in 1..j - k : s[i] = Says(x, k + i)
  BY <1>2, HeardType
<1>4. t \in Seq(L) /\ Len(t) = m - j /\ \A i \in 1..m - j : t[i] = Says(x, j + i)
  BY HeardType
<1>5. u \in Seq(L) /\ Len(u) = m - k /\ \A i \in 1..m - k : u[i] = Says(x, k + i)
  <2> HIDE DEF L
  <2> QED
    BY <1>2, HeardType DEF L
<1> HIDE DEF s, t, u, L
<1>6. /\ s \o t \in Seq(L) /\ Len(s \o t) = Len(s) + Len(t)
      /\ \A i \in 1..Len(s) : (s \o t)[i] = s[i]
      /\ \A i \in 1..Len(t) : (s \o t)[Len(s) + i] = t[i]
  <2>1. s \in Seq(L) /\ t \in Seq(L)
    BY <1>3, <1>4
  <2> QED
    BY ONLY <2>1, ConcatAt
<1>7. ASSUME NEW i \in 1..m - k PROVE (s \o t)[i] = u[i]
  <2>1. CASE i <= j - k
    <3>1. i \in 1..j - k
      BY <1>2, <2>1
    <3> QED
      BY <1>3, <1>5, <1>6, <3>1
  <2>2. CASE i > j - k
    <3>1. i - (j - k) \in 1..m - j /\ (j - k) + (i - (j - k)) = i /\ j + (i - (j - k)) = k + i
      BY <1>2, <2>2
    <3>2. (s \o t)[(j - k) + (i - (j - k))] = t[i - (j - k)]
      BY <1>3, <1>4, <1>6, <3>1
    <3>3. t[i - (j - k)] = Says(x, j + (i - (j - k)))
      BY <1>4, <3>1
    <3> QED
      BY <1>5, <3>1, <3>2, <3>3
  <2>3. i <= j - k \/ i > j - k
    BY <1>2
  <2> QED
    BY ONLY <2>1, <2>2, <2>3
<1>8. s \o t = u
  <2>1. Len(s \o t) = Len(u) /\ Len(u) = m - k
    BY <1>2, <1>3, <1>4, <1>5, <1>6
  <2>2. \A i \in 1..Len(s \o t) : (s \o t)[i] = u[i]
    BY <1>7, <2>1
  <2> QED
    BY <1>5, <1>6, <2>1, <2>2, SeqEqual
<1> QED
  BY <1>8 DEF s, t, u

(* A round of the loop: no frame, a bad one, or one and what follows it *)
LEMMA RoundNone ==
  ASSUME NEW b, NEW f, NEW p, NEW rest, SubSeq(b, p, Len(b)) = rest, U!Delimiter(rest)[1] = 0
  PROVE  Round(b, f, p) = [found |-> <<>>, rest |-> rest]
BY DEF Round

LEMMA RoundBad ==
  ASSUME NEW b, NEW f, NEW p, NEW rest, SubSeq(b, p, Len(b)) = rest, U!Delimiter(rest)[1] # 0,
         U!Parsed(SubSeq(rest, 1, U!Delimiter(rest)[1] - 1)) = "bad"
  PROVE  Round(b, f, p) = [found |-> <<"bad">>, rest |-> <<>>]
BY DEF Round

Goes(b, f, p, rest, w, q, a, z) ==
  /\ SubSeq(b, p, Len(b)) = rest /\ U!Delimiter(rest)[1] # 0
  /\ U!Parsed(SubSeq(rest, 1, U!Delimiter(rest)[1] - 1)) = w /\ w # "bad"
  /\ p + U!Delimiter(rest)[1] + U!Delimiter(rest)[2] - 1 = q
  /\ f[q] = [found |-> a, rest |-> z]

Comes(b, f, p, w, a, z) == Round(b, f, p) = [found |-> <<w>> \o a, rest |-> z]

LEMMA RoundMore ==
  ASSUME NEW b, NEW f, NEW p, NEW rest, NEW w, NEW q, NEW a, NEW z, Goes(b, f, p, rest, w, q, a, z)
  PROVE  Comes(b, f, p, w, a, z)
<1>1. Round(b, f, p) = [f[q] EXCEPT !.found = <<w>> \o f[q].found]
  BY DEF Round, Goes
<1>2. f[q].found = a /\ f[q] = [found |-> a, rest |-> z]
  BY DEF Goes
<1> DEFINE c == <<w>> \o a
<1> HIDE DEF c
<1>3. [[found |-> a, rest |-> z] EXCEPT !.found = c] = [found |-> c, rest |-> z]
  OBVIOUS
<1> QED
  BY <1>1, <1>2, <1>3 DEF c, Comes

(* What the loop finds from the end of the j-th frame on, in the first g bytes *)
Outcome(x, j, g, r) ==
  \E m \in j..Len(x.frames) :
    /\ Cut(x, m) <= g
    /\ \A i \in j + 1..m : Says(x, i) # "bad"
    /\ \/ /\ m = Len(x.frames) \/ g < Cut(x, m + 1)
          /\ r = [found |-> Heard(x, j, m), rest |-> Unread(x, m, g)]
       \/ /\ m < Len(x.frames) /\ Cut(x, m + 1) <= g /\ Says(x, m + 1) = "bad"
          /\ r = [found |-> Heard(x, j, m + 1), rest |-> <<>>]

LEMMA HeardFirst ==
  ASSUME NEW x, WellMade(x), NEW j \in Nat, j < Len(x.frames)
  PROVE  Heard(x, j, j) = <<>> /\ Heard(x, j, j + 1) = <<Says(x, j + 1)>>
<1>1. Len(x.frames) \in Nat
  BY WiresType
<1>2. j + 1 \in 0..Len(x.frames) /\ j \in 0..j + 1 /\ (j + 1) - j = 1 /\ 1 \in 1..1
  BY <1>1
<1>3. Heard(x, j, j) = <<>>
  <2>1. \A i \in 1..j - j : FALSE
    OBVIOUS
  <2>2. Heard(x, j, j) = [i \in 1..0 |-> Says(x, j + i)]
    BY DEF Heard
  <2> QED
    BY <2>2
<1>4. Heard(x, j, j + 1) \in Seq(U!Line) /\ Len(Heard(x, j, j + 1)) = 1 /\ Heard(x, j, j + 1)[1] = Says(x, j + 1)
  <2> DEFINE m == j + 1
  <2>1. m \in 0..Len(x.frames) /\ j \in 0..m /\ m - j = 1
    BY <1>2
  <2> HIDE DEF m
  <2>2. /\ Heard(x, j, m) \in Seq(U!Line) /\ Len(Heard(x, j, m)) = m - j
        /\ \A i \in 1..m - j : Heard(x, j, m)[i] = Says(x, j + i)
    BY <2>1, HeardType
  <2>3. Len(Heard(x, j, m)) = 1 /\ Heard(x, j, m)[1] = Says(x, j + 1)
    BY <2>1, <2>2
  <2> QED
    BY <2>2, <2>3 DEF m
<1> DEFINE h == Heard(x, j, j + 1)
           s == Says(x, j + 1)
<1>5. s \in U!Line
  <2>1. j + 1 \in 1..Len(x.frames)
    BY <1>1
  <2> QED
    BY <2>1, SaysType
<1> HIDE DEF h, s
<1>6. h = <<s>>
  <2>1. <<s>> \in Seq(U!Line) /\ Len(<<s>>) = 1 /\ <<s>>[1] = s
    BY <1>5
  <2>2. \A i \in 1..Len(h) : h[i] = <<s>>[i]
    BY <1>4, <2>1 DEF h, s
  <2> QED
    BY <1>4, <2>1, <2>2, SeqEqual DEF h
<1> QED
  BY <1>3, <1>6 DEF h, s

LEMMA HeardNone ==
  ASSUME NEW x, NEW j \in Nat
  PROVE  Heard(x, j, j) = <<>>
<1>1. Heard(x, j, j) = [i \in 1..0 |-> Says(x, j + i)]
  BY DEF Heard
<1> QED
  BY <1>1

LEMMA OutcomeNone ==
  ASSUME NEW x, WellMade(x), NEW j \in 0..Len(x.frames), NEW g \in Cut(x, j)..Len(Stream(x)),
         j = Len(x.frames) \/ g < Cut(x, j + 1)
  PROVE  Outcome(x, j, g, [found |-> <<>>, rest |-> Unread(x, j, g)])
<1>1. j \in Nat /\ j \in j..Len(x.frames) /\ Cut(x, j) <= g /\ \A i \in j + 1..j : FALSE
  BY CutType, WiresType
<1>2. Heard(x, j, j) = <<>>
  BY <1>1, HeardNone
<1> QED
  BY <1>1, <1>2 DEF Outcome

LEMMA OutcomeBad ==
  ASSUME NEW x, WellMade(x), NEW j \in Nat, j < Len(x.frames), NEW g \in Cut(x, j + 1)..Len(Stream(x)),
         Says(x, j + 1) = "bad"
  PROVE  Outcome(x, j, g, [found |-> <<"bad">>, rest |-> <<>>])
<1>1. j \in j..Len(x.frames) /\ Cut(x, j) <= g /\ Cut(x, j + 1) <= g /\ \A i \in j + 1..j : FALSE
  <2>1. Len(x.frames) \in Nat /\ j + 1 \in 0..Len(x.frames) /\ j \in 0..j + 1
    BY WiresType
  <2>2. Cut(x, j) \in Nat /\ Cut(x, j + 1) \in Nat /\ Cut(x, j) <= Cut(x, j + 1)
    BY <2>1, CutGrows
  <2>3. g >= Cut(x, j + 1) /\ g \in Int
    BY <2>2
  <2> QED
    BY <2>1, <2>2, <2>3
<1>2. Heard(x, j, j + 1) = <<"bad">>
  BY HeardFirst
<1> QED
  BY <1>1, <1>2 DEF Outcome

LEMMA OutcomeMore ==
  ASSUME NEW x, WellMade(x), NEW j \in Nat, j < Len(x.frames), NEW g \in Nat,
         NEW w, w = Says(x, j + 1), w # "bad", NEW k, k = j + 1,
         NEW a, NEW z, Outcome(x, k, g, [found |-> a, rest |-> z])
  PROVE  Outcome(x, j, g, [found |-> <<w>> \o a, rest |-> z])
<1>0. Says(x, j + 1) # "bad" /\ Outcome(x, j + 1, g, [found |-> a, rest |-> z])
  OBVIOUS
<1> SUFFICES Outcome(x, j, g, [found |-> <<Says(x, j + 1)>> \o a, rest |-> z])
  OBVIOUS
<1> DEFINE n == Len(x.frames)
<1>1. n \in Nat /\ j + 1 \in 0..n
  BY WiresType
<1>2. PICK m \in j + 1..n :
        /\ Cut(x, m) <= g
        /\ \A i \in j + 1 + 1..m : Says(x, i) # "bad"
        /\ \/ /\ m = n \/ g < Cut(x, m + 1)
              /\ a = Heard(x, j + 1, m) /\ z = Unread(x, m, g)
           \/ /\ m < n /\ Cut(x, m + 1) <= g /\ Says(x, m + 1) = "bad"
              /\ a = Heard(x, j + 1, m + 1) /\ z = <<>>
  BY <1>0 DEF Outcome
<1>3. m \in j..n /\ m \in Nat /\ m \in 0..n /\ j + 1 \in 0..m /\ j \in 0..j + 1
  BY <1>1
<1>4. \A i \in j + 1..m : Says(x, i) # "bad"
  <2> SUFFICES ASSUME NEW v \in j + 1..m PROVE Says(x, v) # "bad"
    OBVIOUS
  <2>1. CASE v = j + 1
    BY <1>0, <2>1
  <2>2. CASE v # j + 1
    <3>1. v \in j + 1 + 1..m
      BY <1>3, <2>2
    <3> QED
      BY <1>2, <3>1
  <2> QED
    BY <2>1, <2>2
<1>5. Heard(x, j, j + 1) = <<Says(x, j + 1)>>
  BY HeardFirst
<1>6. ASSUME NEW q \in 0..n, j + 1 <= q
      PROVE  <<Says(x, j + 1)>> \o Heard(x, j + 1, q) = Heard(x, j, q)
  <2>1. j + 1 \in 0..q
    BY <1>1, <1>6
  <2> QED
    BY <1>3, <1>5, <2>1, HeardJoins
<1>7. CASE m = n \/ g < Cut(x, m + 1)
  <2>1. CASE a = Heard(x, j + 1, m) /\ z = Unread(x, m, g)
    <3>1. <<Says(x, j + 1)>> \o Heard(x, j + 1, m) = Heard(x, j, m)
      BY <1>3, <1>6
    <3> QED
      BY <1>2, <1>3, <1>4, <1>7, <2>1, <3>1 DEF Outcome
  <2>2. CASE m < n /\ Cut(x, m + 1) <= g
    <3>1. m + 1 \in 0..n
      BY <1>1, <1>3, <2>2
    <3>2. Cut(x, m + 1) \in Nat
      BY <3>1, CutType
    <3> QED
      BY <1>1, <1>3, <1>7, <2>2, <3>2
  <2> QED
    BY <1>2, <2>1, <2>2
<1>8. CASE m < n /\ Cut(x, m + 1) <= g /\ Says(x, m + 1) = "bad" /\ a = Heard(x, j + 1, m + 1) /\ z = <<>>
  <2>1. m + 1 \in 0..n /\ j + 1 <= m + 1
    BY <1>1, <1>3, <1>8
  <2>2. <<Says(x, j + 1)>> \o Heard(x, j + 1, m + 1) = Heard(x, j, m + 1)
    BY <1>6, <2>1
  <2> QED
    BY <1>2, <1>3, <1>4, <1>8, <2>2 DEF Outcome
<1> QED
  BY <1>2, <1>7, <1>8

(* The loop finds the frames that have come in whole, up to the first bad one: by
   induction, from the last frame back to the first of the buffer. *)
LEMMA FramesFound ==
  ASSUME NEW x, WellMade(x), NEW k \in 0..Len(x.frames), NEW g \in Cut(x, k)..Len(Stream(x))
  PROVE  Outcome(x, k, g, U!Frames(Unread(x, k, g)))
<1> DEFINE n == Len(x.frames)
           b == Unread(x, k, g)
           At0(j) == Cut(x, j) - Cut(x, k) + 1
<1>1. n \in Nat /\ k \in Nat /\ g \in Nat
  <2>1. Cut(x, k) \in Nat
    BY CutType
  <2> QED
    BY <2>1, WiresType
<1>2. b \in Seq(Chr)
  BY UnreadAt
<1>3. PICK f : U!Frames(b) = f[1] /\ \A i \in 1..Len(b) + 1 : f[i] = Round(b, f, i)
  BY <1>2, LoopIs
<1> DEFINE T == {j \in Nat : Cut(x, j) <= g => Outcome(x, j, g, f[At0(j)])}
<1>4. ASSUME NEW j \in k..n, Cut(x, j) <= g
      PROVE  /\ g \in Cut(x, j)..Len(Stream(x)) /\ j \in 0..n
             /\ SubSeq(b, At0(j), Len(b)) = Unread(x, j, g)
             /\ f[At0(j)] = Round(b, f, At0(j))
  <2>1. j \in 0..n
    BY <1>1
  <2>2. Cut(x, j) \in Nat /\ Cut(x, k) \in Nat /\ Len(Stream(x)) \in Nat
    BY <2>1, CutType, LenProperties
  <2>3. g \in Cut(x, j)..Len(Stream(x))
    BY <1>1, <1>4, <2>2
  <2>4. SubSeq(b, At0(j), Len(b)) = Unread(x, j, g) /\ At0(j) \in 1..Len(b) + 1
    BY <2>3, UnreadRest
  <2> QED
    BY <1>3, <2>1, <2>3, <2>4
<1>5. ASSUME NEW j \in k..n, Cut(x, j) <= g, j = n \/ g < Cut(x, j + 1)
      PROVE  Outcome(x, j, g, f[At0(j)])
  <2>1. U!Delimiter(Unread(x, j, g)) = <<0, 0>>
    BY <1>4, <1>5, UnreadNone
  <2>2. f[At0(j)] = [found |-> <<>>, rest |-> Unread(x, j, g)]
    <3>1. U!Delimiter(Unread(x, j, g))[1] = 0
      BY <2>1
    <3> QED
      BY <1>4, <1>5, <3>1, RoundNone
  <2> QED
    BY <1>4, <1>5, <2>2, OutcomeNone
<1>6. n \in T
  <2>1. n \in k..n
    BY <1>1
  <2> QED
    BY <1>1, <1>5, <2>1
<1>7. ASSUME NEW j \in k..n, j \in T, k < j PROVE j - 1 \in T
  <2> DEFINE i == j - 1
             d == U!Delimiter(Unread(x, i, g))
  <2>1. i \in k..n /\ i \in Nat /\ i < n /\ i + 1 = j /\ j \in 1..n
    BY <1>1, <1>7
  <2> SUFFICES ASSUME Cut(x, i) <= g PROVE Outcome(x, i, g, f[At0(i)])
    BY <2>1
  <2>2. CASE g < Cut(x, j)
    BY <1>5, <2>1, <2>2
  <2>3. CASE Cut(x, j) <= g
    <3>1. g \in Cut(x, i + 1)..Len(Stream(x))
      BY <1>4, <2>1, <2>3
    <3>2. /\ d[1] \in Nat /\ d[2] \in Nat /\ d[1] # 0 /\ d[1] + d[2] = Cut(x, j) - Cut(x, i) + 1
          /\ U!Parsed(SubSeq(Unread(x, i, g), 1, d[1] - 1)) = Says(x, j)
      BY <2>1, <3>1, UnreadFrame DEF Says
    <3>3. SubSeq(b, At0(i), Len(b)) = Unread(x, i, g) /\ f[At0(i)] = Round(b, f, At0(i))
      BY <1>4, <2>1
    <3>4. At0(i) + d[1] + d[2] - 1 = At0(j)
      <4>1. Cut(x, i) \in Nat /\ Cut(x, j) \in Nat /\ Cut(x, k) \in Nat
        BY <1>1, <2>1, CutType
      <4> DEFINE p == d[1]
                 q == d[2]
                 ci == Cut(x, i)
                 cj == Cut(x, j)
                 ck == Cut(x, k)
      <4>2. p \in Nat /\ q \in Nat /\ p + q = cj - ci + 1 /\ ci \in Nat /\ cj \in Nat /\ ck \in Nat
        BY <3>2, <4>1
      <4> HIDE DEF p, q, ci, cj, ck
      <4>3. (ci - ck + 1) + p + q - 1 = cj - ck + 1
        BY <4>2
      <4> QED
        BY <4>3 DEF p, q, ci, cj, ck
    <3>5. CASE Says(x, j) = "bad"
      <4>1. f[At0(i)] = [found |-> <<"bad">>, rest |-> <<>>]
        BY <3>2, <3>3, <3>5, RoundBad
      <4> QED
        BY <2>1, <3>1, <3>5, <4>1, OutcomeBad
    <3>6. CASE Says(x, j) # "bad"
      <4>1. Outcome(x, j, g, f[At0(j)])
        BY <1>7, <2>3
      <4>2. PICK a, z : f[At0(j)] = [found |-> a, rest |-> z]
        BY <4>1 DEF Outcome
      <4> DEFINE w == Says(x, j)
      <4>3. f[At0(i)] = [found |-> <<w>> \o a, rest |-> z]
        <5> DEFINE rest == Unread(x, i, g)
                   p == At0(i)
                   q == At0(j)
                   e == U!Delimiter(rest)
                   h == Unread(x, k, g)
        <5>1. /\ SubSeq(h, p, Len(h)) = rest /\ e[1] # 0 /\ p + e[1] + e[2] - 1 = q
              /\ U!Parsed(SubSeq(rest, 1, e[1] - 1)) = w /\ w # "bad" /\ f[q] = [found |-> a, rest |-> z]
              /\ f[p] = Round(h, f, p)
          BY <3>2, <3>3, <3>4, <3>6, <4>2
        <5> HIDE DEF rest, p, q, w, h
        <5>2. Round(h, f, p) = [found |-> <<w>> \o a, rest |-> z]
          <6>1. Goes(h, f, p, rest, w, q, a, z)
            BY <5>1 DEF Goes
          <6>2. Comes(h, f, p, w, a, z)
            BY <6>1, RoundMore
          <6> QED
            BY <6>2 DEF Comes
        <5> QED
          BY <5>1, <5>2 DEF p
      <4>4. w = Says(x, i + 1) /\ w # "bad" /\ j = i + 1 /\ Outcome(x, j, g, [found |-> a, rest |-> z])
        BY <2>1, <3>6, <4>1, <4>2
      <4> HIDE DEF w, i
      <4>5. Outcome(x, i, g, [found |-> <<w>> \o a, rest |-> z])
        BY <1>1, <2>1, <4>4, OutcomeMore
      <4> QED
        BY <4>3, <4>5 DEF i
    <3> QED
      BY <3>5, <3>6
  <2>4. Cut(x, j) \in Nat
    BY <1>1, <2>1, CutType
  <2> QED
    BY <1>1, <2>2, <2>3, <2>4
<1>8. \A j \in T : j \in Nat /\ (Cut(x, j) <= g => Outcome(x, j, g, f[At0(j)]))
  OBVIOUS
<1> HIDE DEF T
<1>9. \A j \in k..n : j \in T
  <2>1. \A j \in k..n : j \in T /\ k < j => j - 1 \in T
    BY <1>7
  <2> QED
    BY <1>1, <1>6, <2>1, DownFrom
<1>10. Outcome(x, k, g, f[At0(k)])
  <2>1. k \in k..n /\ Cut(x, k) <= g
    BY <1>1, CutType
  <2> QED
    BY <1>8, <1>9, <2>1
<1>11. At0(k) = 1
  BY CutType
<1> QED
  BY <1>3, <1>10, <1>11

LEMMA AppendJoins ==
  ASSUME NEW S, NEW s \in Seq(S), NEW t \in Seq(S), NEW e \in S
  PROVE  s \o t \in Seq(S) /\ s \o Append(t, e) = Append(s \o t, e)
<1>1. s \o t \in Seq(S) /\ Append(t, e) \in Seq(S) /\ Len(Append(t, e)) = Len(t) + 1
  OBVIOUS
<1>2. s \o Append(t, e) \in Seq(S) /\ Append(s \o t, e) \in Seq(S)
  BY <1>1
<1>3. Len(s \o Append(t, e)) = Len(Append(s \o t, e))
  BY <1>1
<1>4. \A i \in 1..Len(s \o Append(t, e)) : (s \o Append(t, e))[i] = Append(s \o t, e)[i]
  BY <1>1
<1> QED
  BY <1>2, <1>3, <1>4, SeqEqual

(* Concatenations join. *)
LEMMA FlattenConcat ==
  ASSUME NEW S, NEW a \in Seq(Seq(S)), NEW b \in Seq(Seq(S))
  PROVE  U!FlattenSeq(a \o b) = U!FlattenSeq(a) \o U!FlattenSeq(b)
<1> DEFINE Q(k) == SubSeq(b, 1, k)
           n == Len(b)
           T == {k \in Nat : k <= n => U!FlattenSeq(a \o Q(k)) = U!FlattenSeq(a) \o U!FlattenSeq(Q(k))}
<1>1. n \in Nat /\ Q(0) = <<>> /\ Q(n) = b
  OBVIOUS
<1>2. U!FlattenSeq(a) \in Seq(S)
  BY FlattenType
<1>3. 0 \in T
  <2>1. a \o <<>> = a
    OBVIOUS
  <2>2. U!FlattenSeq(<<>>) = <<>>
    BY DEF U!FlattenSeq
  <2>3. U!FlattenSeq(a) \o <<>> = U!FlattenSeq(a)
    BY <1>2
  <2>4. U!FlattenSeq(a \o Q(0)) = U!FlattenSeq(a) \o U!FlattenSeq(Q(0))
    BY <1>1, <2>1, <2>2, <2>3
  <2> HIDE DEF Q
  <2> QED
    BY <2>4
<1>4. ASSUME NEW k \in 0..n, k \in T, k < n PROVE k + 1 \in T
  <2> DEFINE p == Q(k)
             s == b[k + 1]
  <2>1. k \in Nat /\ p \in Seq(Seq(S)) /\ s \in Seq(S) /\ Q(k + 1) = Append(p, s)
    BY <1>1, <1>4
  <2>2. U!FlattenSeq(a \o p) = U!FlattenSeq(a) \o U!FlattenSeq(p)
    BY <1>4
  <2> HIDE DEF p, s, Q
  <2>3. a \o p \in Seq(Seq(S)) /\ a \o Append(p, s) = Append(a \o p, s)
    BY <2>1, AppendJoins, SMTT(20)
  <2>4. U!FlattenSeq(Append(p, s)) = U!FlattenSeq(p) \o s /\ U!FlattenSeq(p) \in Seq(S)
    BY <2>1, FlattenAppend
  <2>5. U!FlattenSeq(Append(a \o p, s)) = U!FlattenSeq(a \o p) \o s
    BY <2>1, <2>3, FlattenAppend
  <2> DEFINE fa == U!FlattenSeq(a)
             fp == U!FlattenSeq(p)
  <2>6. (fa \o fp) \o s = fa \o (fp \o s)
    <3>1. fa \in Seq(S)
      BY <1>2
    <3>2. fp \in Seq(S)
      BY <2>4
    <3>3. s \in Seq(S)
      BY <2>1
    <3> HIDE DEF fa, fp
    <3> QED
      BY ONLY <3>1, <3>2, <3>3, ConcatAssociative
  <2>7. U!FlattenSeq(a \o Q(k + 1)) = U!FlattenSeq(a) \o U!FlattenSeq(Q(k + 1))
    BY <2>1, <2>2, <2>3, <2>4, <2>5, <2>6
  <2> QED
    BY <2>1, <2>7
<1>5. \A k \in T : k <= n => U!FlattenSeq(a \o Q(k)) = U!FlattenSeq(a) \o U!FlattenSeq(Q(k))
  OBVIOUS
<1> HIDE DEF T
<1>6. n \in T
  <2>1. \A k \in 0..n : k \in T /\ k < n => k + 1 \in T
    BY <1>4
  <2>2. \A k \in 0..n : k \in T
    BY <1>1, <1>3, <2>1, UpTo
  <2> QED
    BY <1>1, <2>2
<1>7. U!FlattenSeq(a \o Q(n)) = U!FlattenSeq(a) \o U!FlattenSeq(Q(n))
  <2>1. n <= n
    BY <1>1
  <2> HIDE DEF Q, n
  <2> QED
    BY <1>5, <1>6, <2>1
<1> QED
  BY <1>1, <1>7

-----------------------------------------------------------------------------
(* What is handed on of frames, and the marks they leave *)
Singles(found) ==
  [i \in DOMAIN found |-> IF found[i] \in {"comment", "done", "bad"} THEN <<>> ELSE <<found[i]>>]

LEMMA SinglesType ==
  ASSUME NEW a \in Seq(U!Line)
  PROVE  /\ Singles(a) \in Seq(Seq(U!Line)) /\ Len(Singles(a)) = Len(a) /\ Len(a) \in Nat
         /\ \A i \in 1..Len(a) : /\ Singles(a)[i] = IF a[i] \in {"comment", "done", "bad"} THEN <<>> ELSE <<a[i]>>
                                 /\ Singles(a)[i] \in Seq(U!Line)
<1>1. DOMAIN a = 1..Len(a) /\ Len(a) \in Nat
  OBVIOUS
<1>2. ASSUME NEW i \in 1..Len(a)
      PROVE  (IF a[i] \in {"comment", "done", "bad"} THEN <<>> ELSE <<a[i]>>) \in Seq(U!Line)
  <2>1. a[i] \in U!Line
    OBVIOUS
  <2>2. <<a[i]>> \in Seq(U!Line) /\ <<>> \in Seq(U!Line)
    BY <2>1
  <2> QED
    BY <2>2
<1> QED
  BY <1>1, <1>2 DEF Singles

LEMMA HandedJoins ==
  ASSUME NEW a \in Seq(U!Line), NEW b \in Seq(U!Line)
  PROVE  /\ U!Handed(a) \in Seq(U!Line)
         /\ U!Handed(a \o b) = U!Handed(a) \o U!Handed(b)
<1> DEFINE sa == Singles(a)
           sb == Singles(b)
           sc == Singles(a \o b)
           L == U!Line
<1>1. sa \in Seq(Seq(L)) /\ sb \in Seq(Seq(L))
  BY SinglesType
<1>2. a \o b \in Seq(L) /\ Len(a \o b) = Len(a) + Len(b)
  BY ConcatAt
<1>3. sc \in Seq(Seq(L)) /\ Len(sc) = Len(a) + Len(b)
  BY <1>2, SinglesType
<1>4. ASSUME NEW i \in 1..Len(a) PROVE sc[i] = sa[i]
  <2>1. (a \o b)[i] = a[i] /\ i \in 1..Len(a) + Len(b)
    BY ConcatAt, LenProperties
  <2>2. sc[i] = IF (a \o b)[i] \in {"comment", "done", "bad"} THEN <<>> ELSE <<(a \o b)[i]>>
    BY <1>2, <2>1, SinglesType
  <2> QED
    BY <2>1, <2>2, SinglesType
<1>5. ASSUME NEW i \in 1..Len(b) PROVE sc[Len(a) + i] = sb[i]
  <2>1. (a \o b)[Len(a) + i] = b[i] /\ Len(a) + i \in 1..Len(a) + Len(b)
    BY ConcatAt, LenProperties
  <2>2. sc[Len(a) + i] = IF (a \o b)[Len(a) + i] \in {"comment", "done", "bad"} THEN <<>> ELSE <<(a \o b)[Len(a) + i]>>
    BY <1>2, <2>1, SinglesType
  <2> QED
    BY <2>1, <2>2, SinglesType
<1>6. Len(sa) = Len(a) /\ Len(sb) = Len(b) /\ Len(a) \in Nat /\ Len(b) \in Nat
  BY SinglesType
<1>7. U!Handed(a) = U!FlattenSeq(sa) /\ U!Handed(b) = U!FlattenSeq(sb) /\ U!Handed(a \o b) = U!FlattenSeq(sc)
  BY DEF U!Handed, Singles
<1> HIDE DEF sa, sb, sc, L
<1>8. /\ sa \o sb \in Seq(Seq(L)) /\ Len(sa \o sb) = Len(sa) + Len(sb)
      /\ \A i \in 1..Len(sa) : (sa \o sb)[i] = sa[i]
      /\ \A j \in 1..Len(sb) : (sa \o sb)[Len(sa) + j] = sb[j]
  BY ONLY <1>1, ConcatAt
<1>9. sc = sa \o sb
  <2>1. ASSUME NEW i \in 1..Len(sc) PROVE sc[i] = (sa \o sb)[i]
    <3>1. CASE i \in 1..Len(a)
      BY <1>4, <1>6, <1>8, <3>1
    <3>2. CASE i \notin 1..Len(a)
      <4>1. i - Len(a) \in 1..Len(b) /\ Len(a) + (i - Len(a)) = i
        BY <1>3, <1>6, <3>2
      <4> QED
        BY <1>5, <1>6, <1>8, <4>1
    <3> QED
      BY <3>1, <3>2
  <2>2. Len(sc) = Len(sa \o sb) /\ \A i \in 1..Len(sc) : sc[i] = (sa \o sb)[i]
    BY <1>3, <1>6, <1>8, <2>1
  <2> QED
    BY <1>3, <1>8, <2>2, SeqEqual
<1>10. U!FlattenSeq(sa \o sb) = U!FlattenSeq(sa) \o U!FlattenSeq(sb)
  BY <1>1, FlattenConcat
<1>11. U!FlattenSeq(sa) \in Seq(L)
  BY <1>1, FlattenType
<1> QED
  BY <1>7, <1>9, <1>10, <1>11 DEF L

LEMMA HandedFew ==
  /\ U!Handed(<<>>) = <<>> /\ U!Handed(<<"bad">>) = <<>>
  /\ U!Flags(<<>>) = {} /\ U!Flags(<<"bad">>) = {}
<1>1. U!Handed(<<>>) = <<>>
  <2>1. Singles(<<>>) = <<>>
    BY DEF Singles
  <2> QED
    BY <2>1 DEF U!Handed, U!FlattenSeq, Singles
<1>2. U!Handed(<<"bad">>) = <<>>
  <2>1. <<"bad">> \in Seq(U!Line) /\ Len(<<"bad">>) = 1 /\ <<"bad">>[1] = "bad"
    BY DEF U!Line
  <2> DEFINE s == Singles(<<"bad">>)
             e == <<>>
  <2>2. s \in Seq(Seq(U!Line)) /\ Len(s) = 1 /\ s[1] = <<>>
    <3> DEFINE o == <<"bad">>
    <3>1. o \in Seq(U!Line) /\ Len(o) = 1 /\ o[1] = "bad" /\ 1 \in 1..1
      BY <2>1
    <3> HIDE DEF o
    <3>2. Singles(o) \in Seq(Seq(U!Line)) /\ Len(Singles(o)) = 1 /\ Singles(o)[1] = <<>>
      BY <3>1, SinglesType
    <3> QED
      BY <3>2 DEF o
  <2> HIDE DEF s
  <2>3. s = Append(<<>>, <<>>)
    <3>1. Append(<<>>, <<>>) \in Seq(Seq(U!Line)) /\ Len(Append(<<>>, <<>>)) = 1 /\ Append(<<>>, <<>>)[1] = <<>>
      OBVIOUS
    <3>2. \A i \in 1..Len(s) : s[i] = Append(<<>>, <<>>)[i]
      BY <2>2, <3>1
    <3> QED
      BY <2>2, <3>1, <3>2, SeqEqual
  <2>4. U!FlattenSeq(s) = U!FlattenSeq(<<>>) \o <<>>
    <3>1. <<>> \in Seq(Seq(U!Line)) /\ <<>> \in Seq(U!Line)
      OBVIOUS
    <3> QED
      BY <2>3, <3>1, FlattenAppend
  <2>5. U!FlattenSeq(<<>>) = <<>>
    BY DEF U!FlattenSeq
  <2>6. <<>> \o <<>> = <<>>
    OBVIOUS
  <2>7. U!Handed(<<"bad">>) = U!FlattenSeq(s)
    BY DEF U!Handed, Singles, s
  <2> QED
    BY <2>4, <2>5, <2>6, <2>7
<1>3. U!Flags(<<>>) = {}
  <2>1. \A i \in DOMAIN <<>> : FALSE
    OBVIOUS
  <2> QED
    BY <2>1 DEF U!Flags
<1>4. U!Flags(<<"bad">>) = {}
  <2>1. \A i \in DOMAIN <<"bad">> : <<"bad">>[i] = "bad"
    OBVIOUS
  <2> QED
    BY <2>1 DEF U!Flags
<1> QED
  BY <1>1, <1>2, <1>3, <1>4

Seen(s, f) == \E i \in DOMAIN s : s[i] = f

LEMMA FlagsJoin ==
  ASSUME NEW a \in Seq(U!Line), NEW b \in Seq(U!Line)
  PROVE  U!Flags(a \o b) = U!Flags(a) \cup U!Flags(b)
<1>1. ASSUME NEW f PROVE Seen(a \o b, f) <=> Seen(a, f) \/ Seen(b, f)
  <2> DEFINE c == a \o b
  <2>1. /\ c \in Seq(U!Line) /\ Len(c) = Len(a) + Len(b) /\ Len(a) \in Nat /\ Len(b) \in Nat
        /\ (\A i \in 1..Len(a) : c[i] = a[i]) /\ \A j \in 1..Len(b) : c[Len(a) + j] = b[j]
    BY ConcatAt
  <2> HIDE DEF c
  <2>2. DOMAIN a = 1..Len(a) /\ DOMAIN b = 1..Len(b) /\ DOMAIN c = 1..Len(a) + Len(b)
    BY <2>1
  <2>3. ASSUME Seen(a, f) PROVE Seen(c, f)
    <3>1. PICK i \in 1..Len(a) : a[i] = f
      BY <2>2, <2>3 DEF Seen
    <3>2. i \in 1..Len(a) + Len(b) /\ c[i] = f
      BY <2>1, <3>1
    <3> QED
      BY <2>2, <3>2 DEF Seen
  <2>4. ASSUME Seen(b, f) PROVE Seen(c, f)
    <3>1. PICK i \in 1..Len(b) : b[i] = f
      BY <2>2, <2>4 DEF Seen
    <3>2. Len(a) + i \in 1..Len(a) + Len(b) /\ c[Len(a) + i] = f
      BY <2>1, <3>1
    <3> QED
      BY <2>2, <3>2 DEF Seen
  <2>5. ASSUME Seen(c, f) PROVE Seen(a, f) \/ Seen(b, f)
    <3>1. PICK i \in 1..Len(a) + Len(b) : c[i] = f
      BY <2>2, <2>5 DEF Seen
    <3>2. CASE i <= Len(a)
      <4>1. i \in 1..Len(a) /\ a[i] = f
        BY <2>1, <3>1, <3>2
      <4> QED
        BY <2>2, <4>1 DEF Seen
    <3>3. CASE i > Len(a)
      <4>1. i - Len(a) \in 1..Len(b) /\ Len(a) + (i - Len(a)) = i
        BY <2>1, <3>3
      <4>2. b[i - Len(a)] = f
        BY <2>1, <3>1, <4>1
      <4> QED
        BY <2>2, <4>1, <4>2 DEF Seen
    <3> QED
      BY <2>1, <3>2, <3>3
  <2> QED
    BY <2>3, <2>4, <2>5 DEF c
<1>2. \A s : U!Flags(s) = (IF Seen(s, "done") THEN {"complete", "done"} ELSE {})
                          \cup (IF Seen(s, "finish") THEN {"complete", "finish"} ELSE {})
                          \cup (IF Seen(s, "output") THEN {"output", "text"} ELSE {})
                          \cup (IF Seen(s, "blank") THEN {"output"} ELSE {})
  BY DEF U!Flags, Seen
<1> QED
  BY <1>1, <1>2

(* The marks are some of five. *)
LEMMA FlagsAre ==
  ASSUME NEW s
  PROVE  /\ U!Flags(s) \subseteq {"complete", "output", "done", "finish", "text"}
         /\ "text" \in U!Flags(s) => "output" \in U!Flags(s)
         /\ "complete" \in U!Flags(s) <=> {"done", "finish"} \cap U!Flags(s) # {}
<1>1. U!Flags(s) = (IF Seen(s, "done") THEN {"complete", "done"} ELSE {})
                          \cup (IF Seen(s, "finish") THEN {"complete", "finish"} ELSE {})
                          \cup (IF Seen(s, "output") THEN {"output", "text"} ELSE {})
                          \cup (IF Seen(s, "blank") THEN {"output"} ELSE {})
  BY DEF U!Flags, Seen
<1> QED
  BY <1>1

(* A bounded set of numbers with an element has a greatest one. *)
LEMMA Greatest ==
  ASSUME NEW n \in Nat, NEW T \in SUBSET (0..n), T # {}
  PROVE  \E m \in T : \A k \in T : k <= m
<1> DEFINE V == {n - k : k \in T}
<1>1. V \in SUBSET Nat /\ V # {} /\ \A k \in T : n - k \in V
  <2>1. \A k \in T : n - k \in Nat
    OBVIOUS
  <2>2. \A k \in T : n - k \in V
    OBVIOUS
  <2> QED
    BY <2>1, <2>2
<1>2. \A v \in V : \E k \in T : v = n - k
  OBVIOUS
<1> HIDE DEF V
<1>3. PICK v \in V : \A u \in V : v <= u
  BY <1>1, Least
<1>4. PICK m \in T : v = n - m
  BY <1>2
<1>5. \A k \in T : n - m <= n - k
  BY <1>1, <1>3, <1>4
<1> QED
  BY <1>5

(* The bytes that come on top of what is in the buffer *)
LEMMA UnreadMore ==
  ASSUME NEW x, WellMade(x), NEW m \in 0..Len(x.frames), NEW g \in Cut(x, m)..Len(Stream(x)),
         NEW h \in 1..Len(Stream(x)) - g
  PROVE  Unread(x, m, g) \o SubSeq(Stream(x), g + 1, g + h) = Unread(x, m, g + h)
<1> DEFINE a == Unread(x, m, g)
           S == Stream(x)
           b == SubSeq(S, g + 1, g + h)
           c == Unread(x, m, g + h)
           k == Cut(x, m)
<1>1. k \in Nat /\ S \in Seq(Chr) /\ Len(S) \in Nat
  BY CutType, LenProperties
<1>2. a \in Seq(Chr) /\ Len(a) = g - k /\ \A i \in 1..g - k : a[i] = S[k + i]
  BY UnreadAt
<1>3. g \in Nat /\ h \in Nat /\ k <= g /\ g + h \in k..Len(S) /\ g + h <= Len(S)
  <2>1. g \in k..Len(S) /\ h \in 1..Len(S) - g
    OBVIOUS
  <2> HIDE DEF k, S
  <2> QED
    BY <1>1, <2>1
<1>4. c \in Seq(Chr) /\ Len(c) = g + h - k /\ \A i \in 1..g + h - k : c[i] = S[k + i]
  <2> DEFINE e == g + h
  <2>1. e \in k..Len(S)
    BY <1>3
  <2> HIDE DEF e
  <2>2. /\ Unread(x, m, e) \in Seq(Chr) /\ Len(Unread(x, m, e)) = e - k
        /\ \A i \in 1..e - k : Unread(x, m, e)[i] = S[k + i]
    BY <2>1, UnreadAt DEF k, S
  <2>3. e - k = g + h - k
    BY <1>1, <1>3 DEF e
  <2> QED
    BY <2>2, <2>3 DEF e, c
<1> HIDE DEF a, c, k, S
<1>5. b \in Seq(Chr) /\ Len(b) = h /\ \A i \in 1..h : b[i] = S[g + i]
  <2>1. SubSeq(S, g + 1, g + h) \in Seq(Chr) /\ Len(SubSeq(S, g + 1, g + h)) = h
    BY <1>1, <1>3
  <2>2. ASSUME NEW i \in 1..h PROVE SubSeq(S, g + 1, g + h)[i] = S[g + i]
    BY <1>1, <1>3
  <2> QED
    BY <2>1, <2>2
<1> HIDE DEF b
<1>6. /\ a \o b \in Seq(Chr) /\ Len(a \o b) = Len(a) + Len(b)
      /\ \A i \in 1..Len(a) : (a \o b)[i] = a[i]
      /\ \A i \in 1..Len(b) : (a \o b)[Len(a) + i] = b[i]
  <2>1. a \in Seq(Chr) /\ b \in Seq(Chr)
    BY <1>2, <1>5
  <2> QED
    BY ONLY <2>1, ConcatAt
<1>7. ASSUME NEW i \in 1..g + h - k PROVE (a \o b)[i] = c[i]
  <2>1. CASE i <= g - k
    <3>1. i \in 1..g - k
      BY <1>1, <1>3, <2>1
    <3> QED
      BY <1>2, <1>4, <1>6, <3>1
  <2>2. CASE i > g - k
    <3>1. i - (g - k) \in 1..h /\ (g - k) + (i - (g - k)) = i /\ g + (i - (g - k)) = k + i
      BY <1>1, <1>3, <2>2
    <3>2. (a \o b)[(g - k) + (i - (g - k))] = b[i - (g - k)]
      BY <1>2, <1>5, <1>6, <3>1
    <3>3. b[i - (g - k)] = S[g + (i - (g - k))]
      BY <1>5, <3>1
    <3> QED
      BY <1>4, <3>1, <3>2, <3>3
  <2>3. i <= g - k \/ i > g - k
    BY <1>1, <1>3
  <2> QED
    BY ONLY <2>1, <2>2, <2>3
<1>8. a \o b = c
  <2>1. Len(a \o b) = Len(c) /\ Len(c) = g + h - k
    BY <1>1, <1>2, <1>3, <1>4, <1>5, <1>6
  <2>2. \A i \in 1..Len(a \o b) : (a \o b)[i] = c[i]
    BY <1>7, <2>1
  <2> QED
    BY <1>4, <1>6, <2>1, <2>2, SeqEqual
<1> QED
  BY <1>8 DEF a, b, c, S

-----------------------------------------------------------------------------
(* The readers have handled the first m frames of stream x, in its first g bytes. *)
Upto(x, g, m) ==
  /\ Cut(x, m) <= g
  /\ \A i \in 1..m : Says(x, i) # "bad"

ReaderState(x, g, buf, ev, fl, en) ==
  /\ WellMade(x) /\ g \in 0..Len(Stream(x)) /\ buf \in Seq(Chr)
  /\ \E m \in 0..Len(x.frames) :
       /\ Upto(x, g, m)
       /\ ev = U!Handed(Heard(x, 0, m)) /\ fl = U!Flags(Heard(x, 0, m))
       /\ \/ m = Len(x.frames) \/ g < Cut(x, m + 1)
          \/ en # U!Both("no") /\ Says(x, m + 1) = "bad"
       /\ en = U!Both("no") => buf = Unread(x, m, g)

LEMMA ReadOn ==
  ASSUME NEW x, NEW g, NEW buf, NEW ev, NEW fl, ReaderState(x, g, buf, ev, fl, U!Both("no")),
         NEW h \in 1..Len(Stream(x)) - g,
         NEW r, r = U!Frames(buf \o SubSeq(Stream(x), g + 1, g + h)),
         NEW en, en = IF \E i \in DOMAIN r.found : r.found[i] = "bad" THEN U!Both("error") ELSE U!Both("no")
  PROVE  ReaderState(x, g + h, r.rest, ev \o U!Handed(r.found), fl \cup U!Flags(r.found), en)
<1> DEFINE n == Len(x.frames)
           H == g + h
           L == U!Line
<1>1. WellMade(x) /\ g \in 0..Len(Stream(x)) /\ n \in Nat /\ Len(Stream(x)) \in Nat
  BY CutType, WiresType, LenProperties DEF ReaderState
<1>2. PICK m \in 0..n :
        /\ Upto(x, g, m)
        /\ ev = U!Handed(Heard(x, 0, m)) /\ fl = U!Flags(Heard(x, 0, m))
        /\ m = n \/ g < Cut(x, m + 1)
        /\ buf = Unread(x, m, g)
  BY DEF ReaderState
<1>3. Cut(x, m) \in Nat /\ g \in Nat /\ h \in Nat /\ H \in Nat /\ g \in Cut(x, m)..Len(Stream(x))
      /\ H \in Cut(x, m)..Len(Stream(x)) /\ H \in 0..Len(Stream(x))
  <2>1. Cut(x, m) \in Nat /\ Cut(x, m) <= g
    BY <1>1, <1>2, CutType DEF Upto
  <2> QED
    BY <1>1, <2>1
<1>4. r = U!Frames(Unread(x, m, H))
  BY <1>1, <1>2, <1>3, UnreadMore
<1>5. Outcome(x, m, H, r)
  BY <1>1, <1>3, <1>4, FramesFound
<1>6. PICK q \in m..n :
        /\ Cut(x, q) <= H
        /\ \A i \in m + 1..q : Says(x, i) # "bad"
        /\ \/ /\ q = n \/ H < Cut(x, q + 1)
              /\ r = [found |-> Heard(x, m, q), rest |-> Unread(x, q, H)]
           \/ /\ q < n /\ Cut(x, q + 1) <= H /\ Says(x, q + 1) = "bad"
              /\ r = [found |-> Heard(x, m, q + 1), rest |-> <<>>]
  BY <1>5 DEF Outcome
<1>7. q \in 0..n /\ m \in 0..q /\ 0 \in 0..m /\ q \in Nat /\ m \in Nat /\ 0 \in 0..q
  BY <1>1
<1>8. Upto(x, H, q)
  <2>1. ASSUME NEW i \in 1..q PROVE Says(x, i) # "bad"
    <3>1. i \in 1..m \/ i \in m + 1..q
      BY <1>7
    <3> QED
      BY <1>2, <1>6, <3>1 DEF Upto
  <2> QED
    BY <1>6, <2>1 DEF Upto
<1> DEFINE s == Heard(x, 0, m)
           t == Heard(x, m, q)
           u == Heard(x, 0, q)
<1>9. s \in Seq(L) /\ t \in Seq(L) /\ u \in Seq(L) /\ u = s \o t
  <2>1. s \in Seq(L) /\ t \in Seq(L) /\ u \in Seq(L)
    BY <1>1, <1>7, HeardType
  <2> QED
    BY <1>1, <1>7, <2>1, HeardJoins
<1>10. U!Handed(u) = ev \o U!Handed(t) /\ U!Flags(u) = fl \cup U!Flags(t)
  BY <1>2, <1>9, HandedJoins, FlagsJoin
<1>11. CASE /\ q = n \/ H < Cut(x, q + 1)
            /\ r = [found |-> t, rest |-> Unread(x, q, H)]
  <2>1. r.found = t /\ r.rest = Unread(x, q, H)
    BY <1>11
  <2>2. ~\E i \in DOMAIN t : t[i] = "bad"
    <3>1. Len(t) = q - m /\ \A i \in 1..q - m : t[i] = Says(x, m + i)
      BY <1>1, <1>7, HeardType
    <3>2. ASSUME NEW i \in DOMAIN t PROVE t[i] # "bad"
      <4>1. i \in 1..q - m
        <5> HIDE DEF t
        <5> QED
          BY <1>9, <3>1
      <4>2. m + i \in m + 1..q
        BY <1>7, <4>1
      <4> QED
        BY <1>6, <3>1, <4>1, <4>2
    <3> QED
      BY <3>2
  <2>3. en = U!Both("no")
    BY <2>1, <2>2
  <2>4. Cut(x, q) \in Nat /\ H \in Cut(x, q)..Len(Stream(x))
    BY <1>1, <1>3, <1>6, <1>7, CutType
  <2>5. Unread(x, q, H) \in Seq(Chr)
    BY <1>1, <1>7, <2>4, UnreadAt
  <2> HIDE DEF s, t, H
  <2> QED
    BY <1>1, <1>3, <1>7, <1>8, <1>10, <1>11, <2>1, <2>3, <2>5 DEF ReaderState, H
<1>12. CASE /\ q < n /\ Cut(x, q + 1) <= H /\ Says(x, q + 1) = "bad"
            /\ r = [found |-> Heard(x, m, q + 1), rest |-> <<>>]
  <2> DEFINE w == Heard(x, m, q + 1)
             o == Heard(x, q, q + 1)
  <2>1. r.found = w /\ r.rest = <<>>
    BY <1>12
  <2>2. q + 1 \in 0..n /\ q \in 0..q + 1 /\ m \in 0..q + 1
    BY <1>1, <1>7, <1>12
  <2>3. w \in Seq(L) /\ Len(w) = q + 1 - m /\ \A i \in 1..q + 1 - m : w[i] = Says(x, m + i)
    <3> DEFINE z == q + 1
    <3>1. z \in 0..n /\ m \in 0..z
      BY <2>2
    <3> HIDE DEF z
    <3>2. Heard(x, m, z) \in Seq(L) /\ Len(Heard(x, m, z)) = z - m /\ \A i \in 1..z - m : Heard(x, m, z)[i] = Says(x, m + i)
      BY <1>1, <3>1, HeardType
    <3> QED
      BY <3>2 DEF z
  <2>4. w = t \o o
    BY <1>1, <1>7, <2>2, HeardJoins
  <2>5. o = <<"bad">>
    BY <1>1, <1>7, <1>12, HeardFirst
  <2>6. \E i \in DOMAIN w : w[i] = "bad"
    <3>1. q + 1 - m \in 1..q + 1 - m /\ m + (q + 1 - m) = q + 1
      BY <1>7
    <3>2. w[q + 1 - m] = "bad"
      BY <1>12, <2>3, <3>1
    <3>3. DOMAIN w = 1..q + 1 - m
      <4> HIDE DEF w
      <4> QED
        BY <2>3
    <3> QED
      BY <3>1, <3>2, <3>3
  <2>7. en = U!Both("error")
    BY <2>1, <2>6
  <2>8. U!Both("error") # U!Both("no")
    <3>1. U!Both("error")["whole"] = "error" /\ U!Both("no")["whole"] = "no"
      BY DEF U!Both
    <3> QED
      BY <3>1
  <2>9. o \in Seq(L)
    BY <1>1, <2>2, HeardType
  <2>10. U!Handed(w) = U!Handed(t) /\ U!Flags(w) = U!Flags(t)
    <3>1. U!Handed(t \o o) = U!Handed(t) \o U!Handed(o) /\ U!Handed(t) \in Seq(L) /\ U!Flags(t \o o) = U!Flags(t) \cup U!Flags(o)
      <4> HIDE DEF o, t
      <4> QED
        BY <1>9, <2>9, HandedJoins, FlagsJoin
    <3>2. U!Handed(o) = <<>> /\ U!Flags(o) = {}
      BY <2>5, HandedFew
    <3>3. U!Handed(t) \o <<>> = U!Handed(t)
      BY <3>1
    <3> QED
      BY <2>4, <3>1, <3>2, <3>3
  <2>11. <<>> \in Seq(Chr)
    OBVIOUS
  <2>12. U!Handed(u) = ev \o U!Handed(r.found) /\ U!Flags(u) = fl \cup U!Flags(r.found)
    BY <1>10, <2>1, <2>10
  <2> HIDE DEF s, t, w, o, H
  <2> QED
    BY <1>1, <1>3, <1>7, <1>8, <1>12, <2>1, <2>7, <2>8, <2>11, <2>12 DEF ReaderState, H
<1> QED
  BY <1>6, <1>11, <1>12

LEMMA TextIs == U!Text = Stream(sent)
BY DEF U!Text, U!Wired, Stream, Wires

(* Before a byte was read *)
LEMMA ReaderFresh ==
  ASSUME NEW x, WellMade(x)
  PROVE  ReaderState(x, 0, <<>>, <<>>, {}, U!Both("no"))
<1> DEFINE n == Len(x.frames)
<1>1. n \in Nat /\ Cut(x, 0) = 0 /\ Stream(x) \in Seq(Chr) /\ Len(Stream(x)) \in Nat
  BY CutType, WiresType, LenProperties
<1>2. Heard(x, 0, 0) = <<>>
  BY HeardNone
<1>3. Upto(x, 0, 0)
  BY <1>1 DEF Upto
<1>4. 0 = n \/ 0 < Cut(x, 0 + 1)
  <2> SUFFICES ASSUME 0 # n PROVE 0 < Cut(x, 0 + 1)
    OBVIOUS
  <2> DEFINE F == U!Framed(x.frames[0 + 1], x.newline)
             f == Len(F)
  <2>1. F \in Seq(Chr) /\ f > 1 /\ Cut(x, 0 + 1) = Cut(x, 0) + f
    BY <1>1, CutNext
  <2>2. f \in Nat
    BY <2>1, LenProperties
  <2> HIDE DEF f
  <2> QED
    BY <1>1, <2>1, <2>2
<1>5. Unread(x, 0, 0) = <<>>
  BY <1>1 DEF Unread
<1>6. 0 \in 0..n /\ 0 \in 0..Len(Stream(x)) /\ <<>> \in Seq(Chr)
  BY <1>1
<1> QED
  BY <1>2, <1>3, <1>4, <1>5, <1>6, HandedFew DEF ReaderState

LEMMA ReaderStops ==
  ASSUME NEW x, NEW g, NEW buf, NEW ev, NEW fl, ReaderState(x, g, buf, ev, fl, U!Both("no")),
         NEW en, en # U!Both("no")
  PROVE  ReaderState(x, g, buf, ev, fl, en)
BY DEF ReaderState

LEMMA ReaderFlags ==
  ASSUME NEW x, NEW g, NEW buf, NEW ev, NEW fl, NEW en, ReaderState(x, g, buf, ev, fl, en)
  PROVE  \E s : fl = U!Flags(s)
BY DEF ReaderState

(* How the readers ended *)
Endings(fl, en) ==
  /\ en \in [{"events", "whole"} -> {"no", "closed", "error"}]
  /\ en["whole"] = "closed" => en["events"] = "closed" /\ fl # {}
  /\ en["events"] = "closed" => en["whole"] = "closed" \/ ("output" \in fl /\ "text" \notin fl)

ReaderInv ==
  /\ sent.frames \in Seq(Bodies)
  /\ ReaderState(sent, got, buffer, events, flags, ended)
  /\ Endings(flags, ended)
  /\ sent = U!Silent =>
       got = 0 /\ buffer = <<>> /\ events = <<>> /\ flags = {} /\ ended = U!Both("no")

LEMMA BothIs ==
  ASSUME NEW e \in {"no", "error"}
  PROVE  \A fl : Endings(fl, U!Both(e))
<1>1. U!Both(e) \in [{"events", "whole"} -> {"no", "closed", "error"}]
      /\ U!Both(e)["whole"] = e /\ U!Both(e)["events"] = e
  BY DEF U!Both
<1> QED
  BY <1>1 DEF Endings

LEMMA BothDiffer == U!Both("error") # U!Both("no")
<1>1. U!Both("error")["whole"] = "error" /\ U!Both("no")["whole"] = "no"
  BY DEF U!Both
<1> QED
  BY <1>1

LEMMA ReaderStarts == U!Init => ReaderInv
<1> SUFFICES ASSUME U!Init PROVE ReaderInv
  OBVIOUS
<1>1. sent = U!Silent /\ got = 0 /\ buffer = <<>> /\ events = <<>> /\ flags = {} /\ ended = U!Both("no")
  BY DEF U!Init, U!Both
<1>2. sent.frames = <<>> /\ sent.newline = <<"LF">> /\ sent.tail = <<>>
  BY <1>1 DEF U!Silent
<1>3. WellMade(sent)
  BY <1>2 DEF WellMade, U!NewLine
<1>4. ReaderState(sent, got, buffer, events, flags, ended)
  BY <1>1, <1>3, ReaderFresh
<1>5. sent.frames \in Seq(Bodies)
  BY <1>2
<1> QED
  BY <1>1, <1>4, <1>5, BothIs DEF ReaderInv

(* Every step of the upstream and of the readers keeps the invariant. *)
LEMMA ReaderSteps ==
  ASSUME U!ReaderAssumption
  PROVE  ReaderInv /\ [U!Next]_reader => ReaderInv'
<1> SUFFICES ASSUME ReaderInv, [U!Next]_reader PROVE ReaderInv'
  OBVIOUS
<1>1. CASE UNCHANGED reader
  BY <1>1 DEF reader, ReaderInv
<1>2. ASSUME NEW n \in 0..MaxFrames, NEW newline \in U!NewLine, NEW tail \in {<<>>, <<"LF">>, <<"output">>},
             NEW frames \in [1..n -> Bodies], U!Open(frames, newline, tail)
      PROVE  ReaderInv'
  <2>1. sent = U!Silent /\ sent' = [frames |-> frames, newline |-> newline, tail |-> tail]
        /\ UNCHANGED <<got, buffer, events, flags, ended>>
    BY <1>2 DEF U!Open
  <2>2. sent'.frames = frames /\ sent'.newline = newline /\ sent'.tail = tail
    BY <2>1
  <2>3. frames \in Seq(Bodies) /\ Bodies \subseteq Seq(U!Line) \ {<<>>}
    BY DEF U!ReaderAssumption
  <2>4. WellMade(sent')
    BY <2>2, <2>3, SeqMonotonic DEF WellMade
  <2>5. got = 0 /\ buffer = <<>> /\ events = <<>> /\ flags = {} /\ ended = U!Both("no")
    BY <2>1 DEF ReaderInv
  <2>6. got' = 0 /\ buffer' = <<>> /\ events' = <<>> /\ flags' = {} /\ ended' = U!Both("no")
    BY <2>1, <2>5
  <2>7. ReaderState(sent', 0, <<>>, <<>>, {}, U!Both("no"))
    BY <2>4, ReaderFresh
  <2> QED
    BY <2>2, <2>3, <2>6, <2>7, BothIs DEF ReaderInv
<1>3. ASSUME NEW n \in 1..Len(U!Text), U!Chunk(n) PROVE ReaderInv'
  <2> DEFINE r == U!Frames(buffer \o SubSeq(U!Text, got + 1, got + n))
             en == IF \E i \in DOMAIN r.found : r.found[i] = "bad" THEN U!Both("error") ELSE U!Both("no")
  <2>1. sent # U!Silent /\ ended = U!Both("no") /\ n \in 1..Len(U!Text) - got
    BY <1>3 DEF U!Chunk, U!Reading
  <2>2. /\ buffer' = r.rest /\ events' = events \o U!Handed(r.found)
        /\ flags' = flags \cup U!Flags(r.found) /\ ended' = en /\ got' = got + n /\ sent' = sent
    BY <1>3, <2>1 DEF U!Chunk
  <2>3. ReaderState(sent, got, buffer, events, flags, U!Both("no"))
    BY <2>1 DEF ReaderInv
  <2>4. r = U!Frames(buffer \o SubSeq(Stream(sent), got + 1, got + n)) /\ n \in 1..Len(Stream(sent)) - got
    BY <2>1, TextIs
  <2>5. ReaderState(sent, got + n, r.rest, events \o U!Handed(r.found), flags \cup U!Flags(r.found), en)
    <3>1. en = IF \E i \in DOMAIN r.found : r.found[i] = "bad" THEN U!Both("error") ELSE U!Both("no")
      OBVIOUS
    <3> HIDE DEF r, en
    <3> QED
      BY <2>3, <2>4, <3>1, ReadOn
  <2>6. ReaderState(sent', got', buffer', events', flags', ended')
    BY <2>2, <2>5
  <2>7. Endings(flags', ended')
    BY <2>2, BothIs
  <2>8. sent'.frames \in Seq(Bodies)
    BY <2>2 DEF ReaderInv
  <2> QED
    BY <2>1, <2>2, <2>6, <2>7, <2>8 DEF ReaderInv
<1>4. CASE U!Break
  <2>1. sent # U!Silent /\ ended = U!Both("no") /\ ended' = U!Both("error")
        /\ UNCHANGED <<sent, got, buffer, events, flags>>
    BY <1>4 DEF U!Break, U!Reading
  <2>2. ReaderState(sent, got, buffer, events, flags, U!Both("error"))
    BY <2>1, BothDiffer, ReaderStops DEF ReaderInv
  <2>3. ReaderState(sent', got', buffer', events', flags', ended')
    BY <2>1, <2>2
  <2>4. Endings(flags', ended')
    BY <2>1, BothIs
  <2> QED
    BY <2>1, <2>3, <2>4 DEF ReaderInv
<1>5. CASE U!Close
  <2>1. sent # U!Silent /\ ended = U!Both("no")
        /\ ended' = [events |-> IF U!Usable("output", {"complete"}) THEN "closed" ELSE "error",
                     whole |-> IF U!Usable("text", {"done", "finish"}) THEN "closed" ELSE "error"]
        /\ UNCHANGED <<sent, got, buffer, events, flags>>
    BY <1>5 DEF U!Close, U!Reading
  <2>2. /\ ended'["events"] = IF U!Usable("output", {"complete"}) THEN "closed" ELSE "error"
        /\ ended'["whole"] = IF U!Usable("text", {"done", "finish"}) THEN "closed" ELSE "error"
        /\ ended' \in [{"events", "whole"} -> {"no", "closed", "error"}]
    BY <2>1
  <2>3. ended' # U!Both("no")
    <3>1. U!Both("no")["events"] = "no"
      BY DEF U!Both
    <3> QED
      BY <2>2, <3>1
  <2>4. PICK s : flags = U!Flags(s)
    BY ReaderFlags DEF ReaderInv
  <2>5. /\ "text" \in flags => "output" \in flags
        /\ "complete" \in flags <=> {"done", "finish"} \cap flags # {}
    BY <2>4, FlagsAre
  <2>6. Endings(flags, ended')
    BY <2>2, <2>5 DEF Endings, U!Usable
  <2>7. ReaderState(sent, got, buffer, events, flags, ended')
    BY <2>1, <2>3, ReaderStops DEF ReaderInv
  <2> QED
    BY <2>1, <2>6, <2>7 DEF ReaderInv
<1> QED
  BY <1>1, <1>2, <1>3, <1>4, <1>5 DEF U!Next

-----------------------------------------------------------------------------
(* What the invariant says of Arrived *)
LEMMA WiredCut ==
  ASSUME WellMade(sent), NEW k \in 0..Len(sent.frames)
  PROVE  Len(U!Wired(SubSeq(sent.frames, 1, k))) = Cut(sent, k)
<1> DEFINE fs == sent.frames
           p == SubSeq(fs, 1, k)
           W == Wires(sent)
           B == Seq(U!Line) \ {<<>>}
<1>1. fs \in Seq(B) /\ Len(fs) \in Nat
  BY WiresType DEF WellMade
<1>2. W \in Seq(Seq(Chr)) /\ Len(W) = Len(fs) /\ \A i \in 1..Len(fs) : W[i] = U!Framed(fs[i], sent.newline)
  BY WiresType
<1> HIDE DEF fs, W, B
<1>3. p \in Seq(B) /\ Len(p) = k /\ \A i \in 1..k : p[i] = fs[i]
  BY <1>1 DEF fs
<1>4. SubSeq(W, 1, k) \in Seq(Seq(Chr)) /\ Len(SubSeq(W, 1, k)) = k /\ \A i \in 1..k : SubSeq(W, 1, k)[i] = W[i]
  BY <1>1, <1>2 DEF fs
<1>5. \A i \in 1..k : i \in 1..Len(fs)
  BY <1>1 DEF fs
<1> HIDE DEF p
<1> DEFINE v == [i \in DOMAIN p |-> U!Framed(p[i], sent.newline)]
           u == SubSeq(W, 1, k)
<1>6. DOMAIN p = 1..k
  BY <1>3
<1>7. v = [i \in 1..k |-> u[i]]
  BY <1>2, <1>3, <1>4, <1>5, <1>6
<1>8. u = [i \in 1..k |-> u[i]]
  <2> HIDE DEF u
  <2> QED
    BY <1>4 DEF u
<1>9. U!Wired(p) = U!FlattenSeq(u)
  BY <1>7, <1>8 DEF U!Wired
<1> QED
  BY <1>9 DEF Cut, At, p, fs, W

LEMMA ArrivedIs ==
  ASSUME WellMade(sent), got \in Nat, NEW m \in 0..Len(sent.frames), Upto(sent, got, m),
         m = Len(sent.frames) \/ got < Cut(sent, m + 1) \/ Says(sent, m + 1) = "bad"
  PROVE  U!Arrived = Heard(sent, 0, m)
<1> DEFINE n == Len(sent.frames)
           whole == {k \in 0..n : Len(U!Wired(SubSeq(sent.frames, 1, k))) <= got}
           K == CHOOSE k \in whole : \A j \in whole : j <= k
           all == [i \in 1..K |-> U!Parsed(sent.frames[i])]
           good == {k \in 0..Len(all) : \A i \in 1..k : all[i] # "bad"}
           M == CHOOSE k \in good : \A j \in good : j <= k
<1>1. n \in Nat /\ m \in Nat
  BY WiresType
<1>2. whole = {k \in 0..n : Cut(sent, k) <= got}
  BY WiredCut
<1>3. U!Arrived = SubSeq(all, 1, M)
  BY DEF U!Arrived
<1> HIDE DEF whole
<1>4. m \in whole
  BY <1>2 DEF Upto
<1>5. \E k \in whole : \A j \in whole : j <= k
  BY <1>1, <1>2, <1>4, Greatest
<1>6. K \in whole /\ \A j \in whole : j <= K
  BY <1>5
<1> HIDE DEF K
<1>7. K \in 0..n /\ m <= K /\ Cut(sent, K) <= got
  BY <1>2, <1>4, <1>6
<1>8. Len(all) = K /\ (\A i \in 1..K : all[i] = Says(sent, i)) /\ all \in Seq(U!Line)
  <2>1. \A i \in 1..K : U!Parsed(sent.frames[i]) \in U!Line
    BY <1>1, <1>7, SaysType DEF Says
  <2>2. K \in Nat
    BY <1>7
  <2> QED
    BY <2>1, <2>2 DEF Says
<1> HIDE DEF all
<1>9. m \in good
  BY <1>1, <1>7, <1>8 DEF Upto
<1>10. ASSUME NEW j \in good PROVE j <= m
  <2>1. j \in 0..K /\ \A i \in 1..j : Says(sent, i) # "bad"
    BY <1>7, <1>8
  <2> SUFFICES ASSUME j > m PROVE FALSE
    BY <1>1, <1>7, <2>1
  <2>2. m + 1 \in 1..j /\ m + 1 \in 0..K /\ m < n
    BY <1>1, <1>7, <2>1
  <2>3. Cut(sent, m + 1) \in Nat /\ Cut(sent, K) \in Nat /\ Cut(sent, m + 1) <= Cut(sent, K)
    BY <1>7, <2>2, CutGrows
  <2>4. ~(got < Cut(sent, m + 1))
    BY <1>7, <2>3
  <2> QED
    BY <1>1, <2>1, <2>2, <2>4
<1>10a. good \subseteq 0..K
  BY <1>8
<1> HIDE DEF good
<1>11. M = m
  <2>1. M \in good /\ \A j \in good : j <= M
    BY <1>9, <1>10
  <2> HIDE DEF M
  <2>2. M <= m /\ m <= M /\ M \in Int
    BY <1>7, <1>9, <1>10, <1>10a, <2>1
  <2> QED
    BY <1>1, <2>2
<1>12. SubSeq(all, 1, m) = Heard(sent, 0, m)
  <2> DEFINE a == SubSeq(all, 1, m)
             h == Heard(sent, 0, m)
  <2>1. a \in Seq(U!Line) /\ Len(a) = m /\ \A i \in 1..m : a[i] = all[i]
    BY <1>1, <1>7, <1>8
  <2>2. 0 \in 0..m
    BY <1>1
  <2>3. h \in Seq(U!Line) /\ Len(h) = m - 0 /\ \A i \in 1..m - 0 : h[i] = Says(sent, 0 + i)
    BY <2>2, HeardType
  <2> HIDE DEF a, h
  <2>4. m - 0 = m /\ \A i \in 1..m : 0 + i = i /\ i \in 1..K
    BY <1>1, <1>7
  <2>5. \A i \in 1..Len(a) : a[i] = h[i]
    BY <1>8, <2>1, <2>3, <2>4
  <2>6. a = h
    BY <2>1, <2>3, <2>4, <2>5, SeqEqual
  <2> QED
    BY <2>6 DEF a, h
<1> QED
  BY <1>3, <1>11, <1>12

LEMMA ReaderHolds == ReaderInv => U!ReaderFaithful /\ U!TypeOK
<1> SUFFICES ASSUME ReaderInv PROVE U!ReaderFaithful /\ U!TypeOK
  OBVIOUS
<1>1. WellMade(sent) /\ got \in 0..Len(Stream(sent)) /\ buffer \in Seq(Chr) /\ Len(Stream(sent)) \in Nat
  BY CutType, LenProperties DEF ReaderInv, ReaderState
<1>2. PICK m \in 0..Len(sent.frames) :
        /\ Upto(sent, got, m)
        /\ events = U!Handed(Heard(sent, 0, m)) /\ flags = U!Flags(Heard(sent, 0, m))
        /\ m = Len(sent.frames) \/ got < Cut(sent, m + 1) \/ Says(sent, m + 1) = "bad"
  BY DEF ReaderInv, ReaderState
<1>3. U!Arrived = Heard(sent, 0, m)
  BY <1>1, <1>2, ArrivedIs
<1>4. U!ReaderFaithful
  BY <1>2, <1>3 DEF U!ReaderFaithful, ReaderInv, Endings
<1>5. events \in Seq(U!Line)
  <2>1. Len(sent.frames) \in Nat
    BY <1>1, WiresType
  <2>2. 0 \in 0..m
    BY <2>1
  <2>3. Heard(sent, 0, m) \in Seq(U!Line)
    BY <1>1, <2>2, HeardType
  <2> QED
    BY <1>2, <2>3, HandedJoins
<1>6. flags \subseteq {"complete", "output", "done", "finish", "text"}
  BY <1>2, FlagsAre
<1>7. U!TypeOK
  BY <1>1, <1>5, <1>6, TextIs DEF U!TypeOK, ReaderInv, Endings, Chr
<1> QED
  BY <1>4, <1>7

-----------------------------------------------------------------------------
(* Relay: the fold over the bytes *)

Largest(t) == CHOOSE i \in t : \A j \in t : i >= j
Folds(f, S, b, s) ==
  f = [t \in SUBSET S |-> IF t = {} THEN b ELSE G!Take(f[t \ {Largest(t)}], s[Largest(t)])]
Folded(b, s) == (CHOOSE f : Folds(f, DOMAIN s, b, s))[DOMAIN s]

LEMMA PushedIs == \A c : G!Pushed(c) = Folded([G!Idle EXCEPT !.done = done], c)
BY DEF G!Pushed, Folded, Folds, Largest, G!FoldLeft, G!MapThenFoldSet, G!Max

(* FoldLeft takes the positions from the last one down. *)
LEMMA LargestIs ==
  ASSUME NEW n \in Nat, NEW t \in SUBSET (1..n + 1), n + 1 \in t
  PROVE  Largest(t) = n + 1 /\ t \ {Largest(t)} \in SUBSET (1..n)
<1>1. Largest(t) = n + 1
  <2>1. \A j \in t : n + 1 >= j
    OBVIOUS
  <2>2. ASSUME NEW i \in t, \A j \in t : i >= j PROVE i = n + 1
    <3>1. i \in Int /\ i >= n + 1 /\ i <= n + 1
      BY <2>2
    <3> QED
      BY <3>1
  <2> QED
    BY <2>1, <2>2 DEF Largest
<1> QED
  BY <1>1

LEMMA LargestIn ==
  ASSUME NEW n \in Nat, NEW t \in SUBSET (1..n), t # {}
  PROVE  Largest(t) \in t /\ t \ {Largest(t)} \in SUBSET (1..n)
<1> DEFINE V == {k \in Nat : k <= n => \A u \in SUBSET (1..k) : u # {} => Largest(u) \in u}
<1>1. V \in SUBSET Nat /\ 0 \in V
  <2>1. \A u \in SUBSET (1..0) : u = {}
    OBVIOUS
  <2> QED
    BY <2>1
<1>2. ASSUME NEW k \in V PROVE k + 1 \in V
  <2>1. SUFFICES ASSUME NEW u \in SUBSET (1..k + 1), u # {}, k + 1 <= n PROVE Largest(u) \in u
    OBVIOUS
  <2>2. CASE k + 1 \in u
    BY <2>2, LargestIs
  <2>3. CASE k + 1 \notin u
    <3>1. u \in SUBSET (1..k)
      BY <2>3
    <3> QED
      BY <3>1, <2>1
  <2> QED
    BY <2>2, <2>3
<1>3. \A k \in V : k <= n => \A u \in SUBSET (1..k) : u # {} => Largest(u) \in u
  OBVIOUS
<1> HIDE DEF V
<1>4. V = Nat
  BY <1>1, <1>2, Inductive
<1>5. Largest(t) \in t
  BY <1>3, <1>4
<1> QED
  BY <1>5

LEMMA FoldGrows ==
  ASSUME NEW b, NEW s, NEW n \in Nat, NEW f, Folds(f, 1..n, b, s)
  PROVE  \E g : Folds(g, 1..n + 1, b, s)
<1> DEFINE g == [t \in SUBSET (1..n + 1) |->
                   IF t \in SUBSET (1..n) THEN f[t]
                   ELSE G!Take(f[t \ {Largest(t)}], s[Largest(t)])]
<1>1. \A t \in SUBSET (1..n) :
        f[t] = IF t = {} THEN b ELSE G!Take(f[t \ {Largest(t)}], s[Largest(t)])
  BY DEF Folds
<1>2. ASSUME NEW t \in SUBSET (1..n) PROVE g[t] = f[t]
  <2>1. t \in SUBSET (1..n + 1)
    OBVIOUS
  <2> QED
    BY <2>1
<1>3. ASSUME NEW t \in SUBSET (1..n + 1), t \notin SUBSET (1..n)
      PROVE  g[t] = G!Take(f[t \ {Largest(t)}], s[Largest(t)]) /\ n + 1 \in t
  BY <1>3
<1>4. g = [t \in SUBSET (1..n + 1) |-> g[t]]
  OBVIOUS
<1> HIDE DEF g
<1>5. ASSUME NEW t \in SUBSET (1..n + 1)
      PROVE  g[t] = IF t = {} THEN b ELSE G!Take(g[t \ {Largest(t)}], s[Largest(t)])
  <2>1. CASE t \in SUBSET (1..n) /\ t = {}
    BY <1>1, <1>2, <2>1
  <2>2. CASE t \in SUBSET (1..n) /\ t # {}
    <3>1. t \ {Largest(t)} \in SUBSET (1..n)
      BY <2>2, LargestIn
    <3>2. g[t \ {Largest(t)}] = f[t \ {Largest(t)}]
      BY <3>1, <1>2
    <3> QED
      BY <1>1, <1>2, <2>2, <3>2
  <2>3. CASE t \notin SUBSET (1..n)
    <3>1. n + 1 \in t /\ g[t] = G!Take(f[t \ {Largest(t)}], s[Largest(t)])
      BY <1>3, <2>3
    <3>2. t \ {Largest(t)} \in SUBSET (1..n)
      BY <3>1, LargestIs
    <3>3. g[t \ {Largest(t)}] = f[t \ {Largest(t)}]
      BY <3>2, <1>2
    <3> QED
      BY <3>1, <3>3
  <2> QED
    BY <2>1, <2>2, <2>3
<1>6. Folds(g, 1..n + 1, b, s)
  BY <1>4, <1>5 DEF Folds
<1> QED
  BY <1>6

LEMMA FoldExists ==
  ASSUME NEW b, NEW s, NEW n \in Nat
  PROVE  \E f : Folds(f, 1..n, b, s)
<1> DEFINE V == {k \in Nat : \E f : Folds(f, 1..k, b, s)}
<1>1. 0 \in V
  <2> DEFINE f == [t \in SUBSET (1..0) |-> b]
  <2>1. \A t \in SUBSET (1..0) : t = {}
    OBVIOUS
  <2>2. f = [t \in SUBSET (1..0) |-> IF t = {} THEN b ELSE G!Take(f[t \ {Largest(t)}], s[Largest(t)])]
    BY <2>1
  <2> QED
    BY <2>2 DEF Folds
<1>2. \A k \in V : k + 1 \in V
  BY FoldGrows
<1>3. V \in SUBSET Nat
  OBVIOUS
<1>4. \A k \in V : \E f : Folds(f, 1..k, b, s)
  OBVIOUS
<1> HIDE DEF V
<1>5. V = Nat
  BY <1>1, <1>2, <1>3, Inductive
<1> QED
  BY <1>4, <1>5

FoldsTo(f, n, b, s) == n \in Nat /\ Folds(f, 1..n, b, s)
StepsTo(f, n, b, s) ==
  f[1..0] = b /\ \A k \in 0..n : k < n => f[1..k + 1] = G!Take(f[1..k], s[k + 1])

LEMMA FoldAt ==
  ASSUME NEW b, NEW s, NEW n, NEW f, FoldsTo(f, n, b, s)
  PROVE  StepsTo(f, n, b, s)
<1>0. n \in Nat
  BY DEF FoldsTo
<1>1. \A t \in SUBSET (1..n) :
        f[t] = IF t = {} THEN b ELSE G!Take(f[t \ {Largest(t)}], s[Largest(t)])
  BY DEF Folds, FoldsTo
<1>2. 1..0 = {} /\ 1..0 \in SUBSET (1..n)
  BY <1>0
<1>3. ASSUME NEW k \in 0..n, k < n PROVE f[1..k + 1] = G!Take(f[1..k], s[k + 1])
  <2>1. 1..k + 1 \in SUBSET (1..n) /\ k \in Nat /\ k + 1 \in 1..k + 1 /\ 1..k + 1 \in SUBSET (1..k + 1)
    BY <1>0, <1>3
  <2>2. Largest(1..k + 1) = k + 1
    BY <2>1, LargestIs
  <2>3. (1..k + 1) \ {k + 1} = 1..k /\ 1..k + 1 # {}
    BY <2>1
  <2> QED
    BY <1>1, <2>1, <2>2, <2>3
<1> QED
  BY <1>1, <1>2, <1>3 DEF StepsTo

LEMMA FoldedBy ==
  ASSUME NEW b, NEW s, NEW n \in Nat, DOMAIN s = 1..n
  PROVE  \E f : FoldsTo(f, n, b, s) /\ Folded(b, s) = f[1..n]
<1> DEFINE f == CHOOSE h : Folds(h, 1..n, b, s)
<1>1. Folded(b, s) = f[1..n]
  BY DEF Folded
<1>2. \E h : Folds(h, 1..n, b, s)
  BY FoldExists
<1>3. Folds(f, 1..n, b, s)
  BY <1>2
<1>4. FoldsTo(f, n, b, s)
  BY <1>3 DEF FoldsTo
<1> HIDE DEF f
<1> QED
  BY <1>1, <1>4

LEMMA FoldsAgree ==
  ASSUME NEW b, NEW a, NEW c, NEW k \in Nat, NEW n \in Nat, n = k + 1, Extends(c, a, k),
         NEW f, FoldsTo(f, n, b, c), NEW g, FoldsTo(g, k, b, a)
  PROVE  f[1..n] = G!Take(g[1..k], c[n])
<1>1. f[1..0] = b /\ \A i \in 0..n : i < n => f[1..i + 1] = G!Take(f[1..i], c[i + 1])
  BY FoldAt DEF StepsTo
<1>2. g[1..0] = b /\ \A i \in 0..k : i < k => g[1..i + 1] = G!Take(g[1..i], a[i + 1])
  BY FoldAt DEF StepsTo
<1> DEFINE T == {i \in Nat : f[1..i] = g[1..i]}
<1>3. 0 \in T
  BY <1>1, <1>2
<1>4. \A i \in 0..k : i \in T /\ i < k => i + 1 \in T
  <2> SUFFICES ASSUME NEW i \in 0..k, i \in T, i < k PROVE i + 1 \in T
    OBVIOUS
  <2>1. i \in 0..n /\ i < n /\ i + 1 \in 1..k
    OBVIOUS
  <2>2. c[i + 1] = a[i + 1]
    BY <2>1 DEF Extends
  <2> QED
    BY <1>1, <1>2, <2>1, <2>2
<1>5. k \in T => f[1..k] = g[1..k]
  OBVIOUS
<1> HIDE DEF T
<1>6. k \in T
  <2>1. \A i \in 0..k : i \in T
    BY <1>3, <1>4, UpTo
  <2> QED
    BY <2>1
<1> QED
  BY <1>1, <1>5, <1>6

(* Byte by byte *)
LEMMA FoldNext ==
  ASSUME NEW B, NEW b, NEW s \in Seq(B), NEW k \in Nat, k < Len(s)
  PROVE  Folded(b, SubSeq(s, 1, k + 1)) = G!Take(Folded(b, SubSeq(s, 1, k)), s[k + 1])
<1> DEFINE n == k + 1
           c == SubSeq(s, 1, n)
           a == SubSeq(s, 1, k)
<1>1. DOMAIN c = 1..n /\ DOMAIN a = 1..k /\ c[n] = s[n] /\ Extends(c, a, k)
  BY DEF Extends
<1>2. n \in Nat /\ n = k + 1
  OBVIOUS
<1> HIDE DEF n, c, a
<1>3. PICK f : FoldsTo(f, n, b, c) /\ Folded(b, c) = f[1..n]
  BY <1>1, <1>2, FoldedBy
<1>4. PICK g : FoldsTo(g, k, b, a) /\ Folded(b, a) = g[1..k]
  BY <1>1, FoldedBy
<1>5. f[1..n] = G!Take(g[1..k], c[n])
  BY <1>1, <1>2, <1>3, <1>4, FoldsAgree
<1> QED
  BY <1>1, <1>2, <1>3, <1>4, <1>5 DEF c, a, n

LEMMA FoldNone == \A b : Folded(b, <<>>) = b
<1> SUFFICES ASSUME NEW b PROVE Folded(b, <<>>) = b
  OBVIOUS
<1>1. DOMAIN <<>> = 1..0
  OBVIOUS
<1>2. PICK f : FoldsTo(f, 0, b, <<>>) /\ Folded(b, <<>>) = f[1..0]
  BY <1>1, FoldedBy
<1>3. StepsTo(f, 0, b, <<>>)
  BY <1>2, FoldAt
<1> QED
  BY <1>2, <1>3 DEF StepsTo

Lineset == [line : Seq(G!Half), lines : Seq(Seq(G!Half)), done : BOOLEAN, cr : BOOLEAN]

-----------------------------------------------------------------------------

LEMMA PatchedType ==
  ASSUME NEW l \in Seq(G!Half)
  PROVE  G!Patched(l) \in Seq(G!Half)
<1>1. <<"event", 1>> \in G!Half /\ <<"event", 2>> \in G!Half
  BY DEF G!Half, G!Texture
<1> QED
  BY <1>1 DEF G!Patched

LEMMA TakeType ==
  ASSUME NEW s \in Lineset, NEW x \in G!Byte
  PROVE  G!Take(s, x) \in Lineset
<1>1. s.line \in Seq(G!Half) /\ s.lines \in Seq(Seq(G!Half)) /\ s.done \in BOOLEAN /\ s.cr \in BOOLEAN
      /\ s = [line |-> s.line, lines |-> s.lines, done |-> s.done, cr |-> s.cr]
  BY DEF Lineset
<1>2. CASE x = G!LF /\ s.cr
  BY <1>1, <1>2 DEF G!Take, Lineset
<1>3. CASE x \notin {G!CR, G!LF}
  <2>1. Append(s.line, x) \in Seq(G!Half)
    BY <1>1, <1>3 DEF G!Byte
  <2>2. G!Take(s, x) = [line |-> Append(s.line, x), lines |-> s.lines, done |-> s.done, cr |-> FALSE]
    BY <1>1, <1>3 DEF G!Take
  <2> QED
    BY <1>1, <2>1, <2>2 DEF Lineset
<1>4. CASE x \in {G!CR, G!LF} /\ ~(x = G!LF /\ s.cr)
  <2>1. Append(s.lines, G!Patched(s.line)) \in Seq(Seq(G!Half)) /\ <<>> \in Seq(G!Half)
    BY <1>1, PatchedType
  <2>2. (s.done \/ s.line = G!Whole("done")) \in BOOLEAN /\ (x = G!CR) \in BOOLEAN
    BY <1>1
  <2>3. G!Take(s, x) = [line |-> <<>>,
                        lines |-> IF s.done THEN s.lines ELSE Append(s.lines, G!Patched(s.line)),
                        done |-> s.done \/ s.line = G!Whole("done"), cr |-> x = G!CR]
    BY <1>4 DEF G!Take
  <2> QED
    BY <1>1, <2>1, <2>2, <2>3 DEF Lineset
<1> QED
  BY <1>2, <1>3, <1>4

LEMMA FoldType ==
  ASSUME NEW b \in Lineset, NEW s \in Seq(G!Byte)
  PROVE  /\ \A k \in 0..Len(s) : Folded(b, SubSeq(s, 1, k)) \in Lineset
         /\ Folded(b, s) \in Lineset
<1> DEFINE n == Len(s)
           T == {k \in Nat : Folded(b, SubSeq(s, 1, k)) \in Lineset}
<1>1. n \in Nat /\ SubSeq(s, 1, 0) = <<>> /\ SubSeq(s, 1, n) = s
  OBVIOUS
<1>2. 0 \in T
  BY <1>1, FoldNone
<1>3. \A k \in 0..n : k \in T /\ k < n => k + 1 \in T
  <2> SUFFICES ASSUME NEW k \in 0..n, k \in T, k < n PROVE k + 1 \in T
    OBVIOUS
  <2>1. Folded(b, SubSeq(s, 1, k + 1)) = G!Take(Folded(b, SubSeq(s, 1, k)), s[k + 1])
    BY FoldNext
  <2>2. s[k + 1] \in G!Byte
    OBVIOUS
  <2>3. Folded(b, SubSeq(s, 1, k + 1)) \in Lineset
    BY <2>1, <2>2, TakeType
  <2> QED
    BY <2>3
<1>4. \A k \in T : Folded(b, SubSeq(s, 1, k)) \in Lineset
  OBVIOUS
<1> HIDE DEF T, n
<1>5. \A k \in 0..n : k \in T
  BY <1>1, <1>2, <1>3, UpTo
<1>6. \A k \in 0..n : Folded(b, SubSeq(s, 1, k)) \in Lineset
  BY <1>4, <1>5
<1>7. n \in 0..n
  BY <1>1
<1>8. Folded(b, s) \in Lineset
  BY <1>1, <1>6, <1>7
<1> QED
  BY <1>6, <1>8 DEF n

Streamed(e, l) == G!FlattenSeq([i \in DOMAIN e |-> G!Whole(e[i]) \o l \o l])

(* The upstream's streams are sequences of bytes. *)
LEMMA StreamedIn ==
  ASSUME NEW E, NEW N, NEW S, \A e \in E, l \in N : Streamed(e, l) \in S
  PROVE  {Streamed(e, l) : e \in E, l \in N} \subseteq S
OBVIOUS

LEMMA TextsType ==
  ASSUME G!LegacyAssumption
  PROVE  G!Texts \subseteq Seq(G!Byte)
<1>0. G!Texts = {Streamed(e, l) : e \in [1..MaxEvents -> G!Texture],
                                 l \in {<<G!LF>>, <<G!CR>>, <<G!CR, G!LF>>}}
  BY DEF G!Texts, Streamed
<1> DEFINE E == [1..MaxEvents -> G!Texture]
           N == {<<G!LF>>, <<G!CR>>, <<G!CR, G!LF>>}
<1> SUFFICES ASSUME NEW e \in E, NEW l \in N PROVE Streamed(e, l) \in Seq(G!Byte)
  <2>1. G!Texts = {Streamed(e, l) : e \in E, l \in N}
    BY <1>0
  <2> HIDE DEF E, N
  <2> SUFFICES \A e \in E, l \in N : Streamed(e, l) \in Seq(G!Byte)
    BY <2>1, StreamedIn
  <2> QED
    OBVIOUS
<1> DEFINE s == [i \in DOMAIN e |-> G!Whole(e[i]) \o l \o l]
<1>1. l \in Seq(G!Byte)
  BY DEF G!Byte
<1>2. MaxEvents \in Nat
  BY DEF G!LegacyAssumption
<1>3. ASSUME NEW i \in 1..MaxEvents PROVE G!Whole(e[i]) \o l \o l \in Seq(G!Byte)
  <2>1. e[i] \in G!Texture
    OBVIOUS
  <2>2. <<e[i], 1>> \in G!Byte /\ <<e[i], 2>> \in G!Byte
    BY <2>1 DEF G!Half, G!Byte
  <2>3. G!Whole(e[i]) \in Seq(G!Byte)
    BY <2>2 DEF G!Whole
  <2> QED
    BY <1>1, <2>3
<1>4. s = [i \in 1..MaxEvents |-> s[i]] /\ \A i \in 1..MaxEvents : s[i] \in Seq(G!Byte)
  BY <1>3
<1> HIDE DEF s
<1>5. s \in Seq(Seq(G!Byte))
  BY <1>2, <1>4
<1>6. U!FlattenSeq(s) \in Seq(G!Byte)
  BY <1>5, FlattenType
<1>7. G!FlattenSeq(s) = U!FlattenSeq(s)
  BY DEF G!FlattenSeq, U!FlattenSeq
<1> QED
  BY <1>6, <1>7 DEF s, Streamed

LEMMA DoneAlone ==
  ASSUME NEW a, NEW b, NEW c, NEW d, NEW e
  PROVE  [[line |-> a, lines |-> b, done |-> c, cr |-> e] EXCEPT !.done = d]
           = [line |-> a, lines |-> b, done |-> d, cr |-> e]
OBVIOUS

LEMMA IdleDone ==
  ASSUME NEW d
  PROVE  [G!Idle EXCEPT !.done = d] = [line |-> <<>>, lines |-> <<>>, done |-> d, cr |-> FALSE]
<1> DEFINE a == <<>>
           c == FALSE
<1>1. G!Idle = [line |-> a, lines |-> a, done |-> c, cr |-> c]
  BY DEF G!Idle
<1> HIDE DEF a, c
<1>2. [[line |-> a, lines |-> a, done |-> c, cr |-> c] EXCEPT !.done = d]
        = [line |-> a, lines |-> a, done |-> d, cr |-> c]
  BY DoneAlone
<1> QED
  BY <1>1, <1>2 DEF a, c

LEMMA IdleType ==
  ASSUME NEW d \in BOOLEAN
  PROVE  /\ [G!Idle EXCEPT !.done = d] = [line |-> <<>>, lines |-> <<>>, done |-> d, cr |-> FALSE]
         /\ [G!Idle EXCEPT !.done = d] \in Lineset /\ G!Idle \in Lineset
<1>1. [G!Idle EXCEPT !.done = d] = [line |-> <<>>, lines |-> <<>>, done |-> d, cr |-> FALSE]
  BY IdleDone
<1>2. <<>> \in Seq(G!Half) /\ <<>> \in Seq(Seq(G!Half))
  OBVIOUS
<1> QED
  BY <1>1, <1>2 DEF Lineset, G!Idle

LEMMA RelayStarts == G!Init => G!TypeOK
<1> DEFINE S == Seq(G!Half)
<1>1. <<>> \in Seq(G!Byte) /\ <<>> \in Seq(S) /\ Len(<<>>) = 0 /\ 0 \in 0..0
  OBVIOUS
<1> SUFFICES ASSUME G!Init PROVE G!TypeOK
  OBVIOUS
<1>2. text = <<>> /\ read = 0 /\ done = FALSE /\ relayed = <<>> /\ over = FALSE
  BY DEF G!Init
<1> QED
  BY <1>1, <1>2 DEF G!TypeOK

LEMMA RelayTyped ==
  ASSUME G!LegacyAssumption
  PROVE  G!TypeOK /\ [G!Next]_relay => G!TypeOK'
<1> SUFFICES ASSUME G!TypeOK, [G!Next]_relay PROVE G!TypeOK'
  OBVIOUS
<1>1. CASE UNCHANGED relay
  BY <1>1 DEF relay, G!TypeOK
<1>2. ASSUME NEW t \in G!Texts, G!Open(t) PROVE G!TypeOK'
  <2>1. text = <<>> /\ text' = t /\ UNCHANGED <<read, done, relayed, over>> /\ t \in Seq(G!Byte)
    BY <1>2, TextsType DEF G!Open
  <2>2. read = 0 /\ Len(t) \in Nat
    BY <2>1 DEF G!TypeOK
  <2> QED
    BY <2>1, <2>2 DEF G!TypeOK
<1>3. ASSUME NEW n \in 1..Len(text), G!Chunk(n) PROVE G!TypeOK'
  <2> DEFINE c == SubSeq(text, read + 1, read + n)
             s == G!Pushed(c)
  <2>1. relayed' = relayed \o s.lines /\ done' = s.done /\ over' = s.done
        /\ read' = read + n /\ text' = text /\ n \in 1..Len(text) - read
    BY <1>3 DEF G!Chunk
  <2>2. text \in Seq(G!Byte) /\ read \in 0..Len(text) /\ done \in BOOLEAN /\ relayed \in Seq(Seq(G!Half))
    BY DEF G!TypeOK
  <2>3. c \in Seq(G!Byte)
    BY <2>1, <2>2
  <2>4. s \in Lineset
    <3> HIDE DEF c
    <3> QED
      BY <2>2, <2>3, IdleType, FoldType, PushedIs
  <2> HIDE DEF s
  <2>5. s.lines \in Seq(Seq(G!Half)) /\ s.done \in BOOLEAN
    BY <2>4 DEF Lineset
  <2>6. read + n \in 0..Len(text)
    BY <2>1, <2>2
  <2>7. relayed' \in Seq(Seq(G!Half))
    BY <2>1, <2>2, <2>5
  <2> QED
    BY <2>1, <2>2, <2>5, <2>6, <2>7 DEF G!TypeOK
<1>4. CASE G!End
  BY <1>4 DEF G!End, G!TypeOK
<1> QED
  BY <1>1, <1>2, <1>3, <1>4 DEF G!Next

-----------------------------------------------------------------------------
(* The readers, and all parts together *)

LEMMA ReadersHold == U!Spec => [](U!ReaderFaithful /\ U!TypeOK)
<1>1. U!ReaderAssumption
  BY PartsAssumption
<1>2. ReaderInv /\ [U!Next]_(U!vars) => ReaderInv'
  BY <1>1, ReaderSteps DEF reader, U!vars
<1> QED
  BY <1>2, ReaderStarts, ReaderHolds, PTL DEF U!Spec

LEMMA RelayTyping == G!Spec => []G!TypeOK
<1>1. G!LegacyAssumption
  BY PartsAssumption
<1>2. G!TypeOK /\ [G!Next]_(G!vars) => G!TypeOK'
  BY <1>1, RelayTyped DEF relay, G!vars
<1> QED
  BY <1>2, RelayStarts, PTL DEF G!Spec

\* Every part keeps its types.
THEOREM PartsTypesCorrect == PartsSpec => []PartsTypeOK
<1>1. PartsTypeOK <=> TypeOK /\ D!TypeOK /\ P!TypeOK /\ U!TypeOK /\ G!TypeOK
  BY DEF PartsTypeOK
<1> QED
  BY <1>1, PartsKeepApart, TypeCorrect, DeliveryTyping, PinsTyping, ReadersHold, RelayTyping, PTL

\* However the upstream's bytes are cut into chunks, whatever its frames and in
\* whichever way its lines end, the kernel's readers hand on just the events that
\* have come in whole, up to the first that is no JSON, and agree on whether the
\* stream was complete (client.rs SseParser, stream_sse_events,
\* collect_stream_parts).
THEOREM ReadersAreFaithful == PartsSpec => []U!ReaderFaithful
BY PartsKeepApart, ReadersHold, PTL
=============================================================================
