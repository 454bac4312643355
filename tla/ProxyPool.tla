------------------------------ MODULE ProxyPool ------------------------------
(***************************************************************************)
(* The node pool of zen-proxy-rs (src/zen-proxy-rs/src/pool/manager.rs):   *)
(* how a SOCKS node moves between the dispatch, ratelimited and dead pools *)
(* and the node registry while requests, recovery probes and the           *)
(* administrator act on it concurrently.                                   *)
(*                                                                         *)
(* Every sub-pool has a lock of its own and PoolManagerImpl holds none     *)
(* across two of them, so a report, a probe or a call of the administrator *)
(* is a sequence of steps that others interleave with.  The active pool is *)
(* left out: it counts requests for the statistics, and no step reads it.  *)
(*                                                                         *)
(* An admission holds the read lock of the node's shard, which it shares   *)
(* with other admissions; releases and changes of the rotation wait for    *)
(* it.  Budgets and their rollback are NodeAdmission's: here a request may *)
(* be turned away at any point of its admission.                           *)
(***************************************************************************)
EXTENDS Integers, FiniteSets

CONSTANTS
  Nodes,          \* node ids, the direct pseudo-node excluded
  Requests,       \* request tasks
  Probes,         \* probe tasks that may be in flight (bounds tokio::spawn)
  MaxConcurrent,  \* admission limit of a node (AIMD keeps it in NodeAdmission)
  MaxOps,         \* bound on administrator calls
  MaxLeaks,       \* bound on leases of a node that nobody holds
  Absent          \* no entry for this node in a map

ASSUME RequestsAssumption == IsFiniteSet(Requests)
ASSUME MaxConcurrentAssumption == MaxConcurrent \in Nat
ASSUME MaxOpsAssumption == MaxOps \in Nat
ASSUME MaxLeaksAssumption == MaxLeaks \in Nat
ASSUME AbsentAssumption == Absent \notin Int

VARIABLES
  dispatch,     \* nodes that have a PoolNode in a dispatch shard
  leases,       \* PoolNode.active_leases, 0 for a node without a PoolNode
  ratelimited,  \* RateLimitedPoolImpl entries
  dead,         \* DeadPoolImpl: consecutive_probe_successes, or Absent
  nodes,        \* NodeRegistry
  fuse,         \* PoolManagerImpl.fuse
  pc, at,       \* per request: where its task is, and the node it was given
  probe,        \* per probe task: kind, step, node, fuse value it captured
  admin,        \* the administrator's call: its step, the node it is at, and
                \*   the nodes it still has to visit
  ops,          \* administrator calls so far
  leaked,       \* history: leases of the PoolNode that were taken for nobody
  crowd,        \* history: the most admissions that had loaded the PoolNode's
                \*   count and not yet raised it, at one time
  stolen,       \* history: nodes whose lease count was reset or decremented
                \*   by something other than the report of one of its requests
  excused       \* history: nodes two operations overlapped on, or that were
                \*   recovered while the fuse was open

pools == <<dispatch, leases, ratelimited, dead, nodes, fuse>>
history == <<leaked, crowd, stolen, excused>>
vars == <<dispatch, leases, ratelimited, dead, nodes, fuse,
          pc, at, probe, admin, ops, leaked, crowd, stolen, excused>>

-----------------------------------------------------------------------------
(* Types *)

Reporting == {"release429", "withdraw429", "spawn", "withdrawErr", "bury"}
Loaded == {"admitting", "diagnosing"}
PC == {"idle", "admit", "enter", "serving", "gone"} \cup Loaded \cup Reporting

Kinds == {"none", "own", "periodic", "dead"}
Steps == {"running", "undead", "unlimit", "restore", "credit"}
ProbeTask == [kind : Kinds, step : Steps, node : Nodes, fused : BOOLEAN]
Call == [op : {"none", "fuse", "unfuse", "add", "remove", "recover"}, todo : SUBSET Nodes, node : Nodes,
         step : {"next", "bury", "undead", "register", "unlimit", "forget", "rejoin", "credit"}]

TypeOK ==
  /\ dispatch \in SUBSET Nodes
  /\ leases \in [Nodes -> Nat]
  /\ ratelimited \in SUBSET Nodes
  /\ dead \in [Nodes -> Nat \cup {Absent}]
  /\ nodes \in SUBSET Nodes
  /\ fuse \in BOOLEAN
  /\ pc \in [Requests -> PC]
  /\ at \in [Requests -> Nodes]
  /\ probe \in [Probes -> ProbeTask]
  /\ admin \in Call
  /\ ops \in 0..MaxOps
  /\ leaked \in [Nodes -> Nat]
  /\ crowd \in [Nodes -> Nat]
  /\ stolen \in SUBSET Nodes
  /\ excused \in SUBSET Nodes

\* main.rs adds every configured node to the dispatch pool and the registry.
Init ==
  /\ dispatch = Nodes
  /\ leases = [n \in Nodes |-> 0]
  /\ ratelimited = {}
  /\ dead = [n \in Nodes |-> Absent]
  /\ nodes = Nodes
  /\ fuse = FALSE
  /\ pc = [r \in Requests |-> "idle"]
  /\ at \in [Requests -> Nodes]
  /\ probe \in [Probes -> [kind : {"none"}, step : {"running"},
                           node : Nodes, fused : {FALSE}]]
  /\ admin \in [op : {"none"}, todo : {{}}, node : Nodes, step : {"next"}]
  /\ ops = 0
  /\ leaked = [n \in Nodes |-> 0]
  /\ crowd = [n \in Nodes |-> 1]
  /\ stolen = {}
  /\ excused = {}

-----------------------------------------------------------------------------
(* The sub-pools' operations *)

IsDead(n) == dead[n] # Absent
Bury(n) == dead' = [dead EXCEPT ![n] = 0]
Undead(n) == dead' = [dead EXCEPT ![n] = Absent]

\* Mutant of Released: decrements a count that is already zero.
ReleasedUnsaturated(n) ==
  [leases EXCEPT ![n] = IF n \in dispatch THEN @ - 1 ELSE @]

\* DispatchPool::release_with_latency: saturating, and nothing when the node
\* has no PoolNode.
Released(n) ==
  [leases EXCEPT ![n] = IF n \in dispatch /\ @ > 0 THEN @ - 1 ELSE @]

\* The admissions that loaded the lease count of n and have not raised it.
InAdmission(n) == {r \in Requests : at[r] = n /\ pc[r] \in Loaded}

\* The write lock of the shard of n can be had.
ShardFree(n) == InAdmission(n) = {}

\* DispatchPool::remove drops the PoolNode with its lease count.
Withdraw(n) ==
  /\ ShardFree(n)
  /\ dispatch' = dispatch \ {n}
  /\ leases' = [leases EXCEPT ![n] = 0]
  /\ leaked' = [leaked EXCEPT ![n] = 0]
  /\ crowd' = [crowd EXCEPT ![n] = 1]
  /\ stolen' = IF leases[n] > 0 THEN stolen \cup {n} ELSE stolen

\* DispatchPool::add: a fresh PoolNode, or nothing when there is one already.
Rejoin(n) == ShardFree(n) /\ dispatch' = dispatch \cup {n}

\* DispatchPool::release that no request stands behind.
Credit(n) ==
  /\ ShardFree(n)
  /\ leases' = Released(n)
  /\ stolen' = IF leases[n] > 0 THEN stolen \cup {n} ELSE stolen

\* Some other operation that moves n between pools is under way.
Busy(n) ==
  \/ \E r \in Requests : at[r] = n /\ pc[r] \in Reporting \cup {"enter"}
  \/ \E p \in Probes : probe[p].kind # "none" /\ probe[p].node = n
  \/ n \in admin.todo

\* The history of overlaps when an operation on n begins.
Begins(n) == excused' = IF Busy(n) THEN excused \cup {n} ELSE excused

-----------------------------------------------------------------------------
(* A request: dispatch, serve, report *)

\* dispatch_excluding reads the fuse before anything else.
Start(r) ==
  /\ pc[r] = "idle"
  /\ ~fuse
  /\ pc' = [pc EXCEPT ![r] = "admit"]
  /\ UNCHANGED <<pools, at, probe, admin, ops, history>>

\* Mutant of Load: compares with <= instead of <.
LoadPastLimit(r, n, step) ==
  /\ pc[r] = "admit"
  /\ n \in dispatch
  /\ leases[n] <= MaxConcurrent
  /\ pc' = [pc EXCEPT ![r] = step]
  /\ at' = [at EXCEPT ![r] = n]
  /\ crowd' = [crowd EXCEPT ![n] = IF @ > Cardinality(InAdmission(n)) THEN @ ELSE @ + 1]
  /\ UNCHANGED <<pools, probe, admin, ops, leaked, stolen, excused>>

\* try_admit on a node loads its lease count before it takes the budget's lock:
\* on one that the pin, the affinity list or a shard yields, or, when the shard
\* has no admissible node, on each of its nodes for the sake of diagnostics.
Load(r, n, step) ==
  /\ pc[r] = "admit"
  /\ n \in dispatch
  /\ leases[n] < MaxConcurrent
  /\ pc' = [pc EXCEPT ![r] = step]
  /\ at' = [at EXCEPT ![r] = n]
  /\ crowd' = [crowd EXCEPT ![n] = IF @ > Cardinality(InAdmission(n)) THEN @ ELSE @ + 1]
  /\ UNCHANGED <<pools, probe, admin, ops, leaked, stolen, excused>>

\* It goes by the count it loaded.
Admit(r) ==
  /\ pc[r] = "admitting"
  /\ leases' = [leases EXCEPT ![at[r]] = @ + 1]
  /\ pc' = [pc EXCEPT ![r] = "enter"]
  /\ UNCHANGED <<dispatch, ratelimited, dead, nodes, fuse, at, probe,
                 admin, ops, history>>

\* The diagnostics pass drops the answer, a lease included.
Diagnose(r) ==
  /\ pc[r] = "diagnosing"
  /\ leaked[at[r]] < MaxLeaks
  /\ leases' = [leases EXCEPT ![at[r]] = @ + 1]
  /\ leaked' = [leaked EXCEPT ![at[r]] = @ + 1]
  /\ pc' = [pc EXCEPT ![r] = "admit"]
  /\ UNCHANGED <<dispatch, ratelimited, dead, nodes, fuse, at, probe,
                 admin, ops, crowd, stolen, excused>>

\* A budget refuses.
Refuse(r) ==
  /\ pc[r] \in Loaded
  /\ pc' = [pc EXCEPT ![r] = "admit"]
  /\ UNCHANGED <<pools, at, probe, admin, ops, history>>

\* NoResource, or the direct pseudo-node, whose report returns at once.  The
\* scan over shards is not atomic, so it may miss a node that is admissible now.
AdmitNothing(r) ==
  /\ pc[r] = "admit"
  /\ pc' = [pc EXCEPT ![r] = "idle"]
  /\ UNCHANGED <<pools, at, probe, admin, ops, history>>

\* nodes.insert, after the lease was taken.
Enter(r) ==
  /\ pc[r] = "enter"
  /\ nodes' = nodes \cup {at[r]}
  /\ pc' = [pc EXCEPT ![r] = "serving"]
  /\ UNCHANGED <<dispatch, leases, ratelimited, dead, fuse, at, probe, admin,
                 ops, history>>

\* The request's future is dropped while it awaits the upstream: no guard
\* outside a metered stream reports for it.
Abandon(r) ==
  /\ pc[r] = "serving"
  /\ pc' = [pc EXCEPT ![r] = "gone"]
  /\ UNCHANGED <<pools, at, probe, admin, ops, history>>

\* Mutant of ReportPlain: leaves the lease behind.
ReportPlainKeepsLease(r) ==
  /\ pc[r] = "serving"
  /\ pc' = [pc EXCEPT ![r] = "idle"]
  /\ UNCHANGED <<dispatch, leases, ratelimited, dead, nodes, fuse, at, probe,
                 admin, ops, history>>

\* Success, EmptyOutput, ClientGone and SoftFailure give the lease back and
\* leave the node in rotation.
ReportPlain(r) ==
  /\ pc[r] = "serving"
  /\ ShardFree(at[r])
  /\ leases' = Released(at[r])
  /\ pc' = [pc EXCEPT ![r] = "idle"]
  /\ UNCHANGED <<dispatch, ratelimited, dead, nodes, fuse, at, probe, admin,
                 ops, history>>

\* RateLimited quarantines the node before it gives the lease back.
Report429(r) ==
  /\ pc[r] = "serving"
  /\ ratelimited' = ratelimited \cup {at[r]}
  /\ pc' = [pc EXCEPT ![r] = "release429"]
  /\ Begins(at[r])
  /\ UNCHANGED <<dispatch, leases, dead, nodes, fuse, at, probe, admin,
                 ops, leaked, crowd, stolen>>

Report429Releases(r) ==
  /\ pc[r] = "release429"
  /\ ShardFree(at[r])
  /\ leases' = Released(at[r])
  /\ pc' = [pc EXCEPT ![r] = "withdraw429"]
  /\ UNCHANGED <<dispatch, ratelimited, dead, nodes, fuse, at, probe, admin,
                 ops, history>>

\* Error gives the lease back first.
ReportError(r) ==
  /\ pc[r] = "serving"
  /\ ShardFree(at[r])
  /\ leases' = Released(at[r])
  /\ pc' = [pc EXCEPT ![r] = "withdrawErr"]
  /\ Begins(at[r])
  /\ UNCHANGED <<dispatch, ratelimited, dead, nodes, fuse, at, probe, admin,
                 ops, leaked, crowd, stolen>>

\* dispatch.remove, reached after the release.
ReportWithdraws(r) ==
  /\ pc[r] \in {"withdraw429", "withdrawErr"}
  /\ Withdraw(at[r])
  /\ pc' = [pc EXCEPT ![r] = IF @ = "withdraw429" THEN "spawn" ELSE "bury"]
  /\ UNCHANGED <<ratelimited, dead, nodes, fuse, at, probe, admin, ops,
                 excused>>

\* Mutant of ReportBuries: buries only a node that has an entry already.
ReportBuriesKnownEntry(r) ==
  /\ pc[r] = "bury"
  /\ IF IsDead(at[r]) THEN Bury(at[r]) ELSE UNCHANGED dead
  /\ pc' = [pc EXCEPT ![r] = "idle"]
  /\ UNCHANGED <<dispatch, leases, ratelimited, nodes, fuse, at, probe,
                 admin, ops, history>>

\* dead.add when the registry knows the node, then dead.bury: an entry with a
\* zeroed success count either way.
ReportBuries(r) ==
  /\ pc[r] = "bury"
  /\ Bury(at[r])
  /\ pc' = [pc EXCEPT ![r] = "idle"]
  /\ UNCHANGED <<dispatch, leases, ratelimited, nodes, fuse, at, probe,
                 admin, ops, history>>

Task(k, n, f) == [kind |-> k, step |-> "running", node |-> n, fused |-> f]

\* A rate-limited report ends by spawning a probe of the node it removed.
ReportSpawns(r, p) ==
  /\ pc[r] = "spawn"
  /\ probe[p].kind = "none"
  /\ pc' = [pc EXCEPT ![r] = "idle"]
  /\ probe' = IF at[r] \in nodes
              THEN [probe EXCEPT ![p] = Task("own", at[r], FALSE)]
              ELSE probe
  /\ UNCHANGED <<pools, at, admin, ops, history>>

-----------------------------------------------------------------------------
(* Probes *)

\* probe_ratelimited_periodic reads the fuse when it spawns.
SpawnPeriodic(p, n) ==
  /\ probe[p].kind = "none"
  /\ n \in ratelimited \cap nodes
  /\ probe' = [probe EXCEPT ![p] = Task("periodic", n, fuse)]
  /\ Begins(n)
  /\ UNCHANGED <<pools, pc, at, admin, ops, leaked, crowd, stolen>>

\* probe_dead_adaptive runs hourly and a probe ends well within the hour.
SpawnDead(p, n) ==
  /\ probe[p].kind = "none"
  /\ IsDead(n) /\ n \in nodes
  /\ \A q \in Probes : ~(probe[q].kind = "dead" /\ probe[q].node = n)
  /\ probe' = [probe EXCEPT ![p] = Task("dead", n, fuse)]
  /\ Begins(n)
  /\ UNCHANGED <<pools, pc, at, admin, ops, leaked, crowd, stolen>>

EndProbe(p) == probe' = [probe EXCEPT ![p] = Task("none", @.node, FALSE)]
GoTo(p, s) == probe' = [probe EXCEPT ![p].step = s]

ProbeFails(p) ==
  /\ probe[p].kind \in {"own", "periodic"}
  /\ probe[p].step = "running"
  /\ EndProbe(p)
  /\ UNCHANGED <<pools, pc, at, admin, ops, history>>

\* ratelimited.recover; a periodic probe spawned under an open fuse stops here.
ProbeRecovers(p) ==
  /\ probe[p].kind \in {"own", "periodic"}
  /\ probe[p].step = "running"
  /\ ratelimited' = ratelimited \ {probe[p].node}
  /\ IF probe[p].fused
     THEN EndProbe(p) /\ excused' = excused \cup {probe[p].node}
     ELSE GoTo(p, "restore") /\ excused' = excused
  /\ UNCHANGED <<dispatch, leases, dead, nodes, fuse, pc, at, admin,
                 ops, leaked, crowd, stolen>>

\* dead.record_probe_result, then recovery_proven.
DeadProbeAnswers(p, ok) ==
  LET n == probe[p].node
      proven == IF ~IsDead(n) \/ ~ok THEN 0 ELSE dead[n] + 1
  IN /\ probe[p].kind = "dead"
     /\ probe[p].step = "running"
     /\ dead' = IF IsDead(n) THEN [dead EXCEPT ![n] = proven] ELSE dead
     /\ IF proven >= 2 THEN GoTo(p, "undead") ELSE EndProbe(p)
     /\ UNCHANGED <<dispatch, leases, ratelimited, nodes, fuse, pc, at,
                    admin, ops, history>>

\* dead.recover
DeadProbeRecovers(p) ==
  /\ probe[p].step = "undead"
  /\ Undead(probe[p].node)
  /\ GoTo(p, "unlimit")
  /\ UNCHANGED <<dispatch, leases, ratelimited, nodes, fuse, pc, at,
                 admin, ops, history>>

\* ratelimited.recover
DeadProbeUnlimits(p) ==
  /\ probe[p].step = "unlimit"
  /\ ratelimited' = ratelimited \ {probe[p].node}
  /\ IF probe[p].fused
     THEN EndProbe(p) /\ excused' = excused \cup {probe[p].node}
     ELSE GoTo(p, "restore") /\ excused' = excused
  /\ UNCHANGED <<dispatch, leases, dead, nodes, fuse, pc, at, admin,
                 ops, leaked, crowd, stolen>>

ProbeRestores(p) ==
  /\ probe[p].step = "restore"
  /\ Rejoin(probe[p].node)
  /\ GoTo(p, "credit")
  /\ UNCHANGED <<leases, ratelimited, dead, nodes, fuse, pc, at, admin,
                 ops, history>>

\* dispatch.release(Success(200)), meant to raise the node's score.
ProbeCredits(p) ==
  /\ probe[p].step = "credit"
  /\ Credit(probe[p].node)
  /\ EndProbe(p)
  /\ UNCHANGED <<dispatch, ratelimited, dead, nodes, fuse, pc, at,
                 admin, ops, leaked, crowd, excused>>

-----------------------------------------------------------------------------
(* The administrator *)

\* One call at a time.
AdminCall == admin.todo = {} /\ ops < MaxOps /\ ops' = ops + 1

AdminAt(op, step) == admin.op = op /\ admin.step = step
Visiting(n, step) == admin' = [admin EXCEPT !.node = n, !.step = step]
AdminGoes(step) == admin' = [admin EXCEPT !.step = step]
Sweeping(op, ids) ==
  admin' = [op |-> IF ids = {} THEN "none" ELSE op, todo |-> ids, node |-> admin.node, step |-> "next"]
Visited(n) == Sweeping(admin.op, admin.todo \ {n})

\* A call about one node that takes more than one step.
Calls(op, n, step) ==
  AdminCall /\ admin' = [op |-> op, todo |-> {n}, node |-> n, step |-> step]

\* The sweeps snapshot the ids they will visit.
Sweeps(op, ids) ==
  /\ AdminCall
  /\ Sweeping(op, ids)
  /\ excused' = excused \cup {n \in ids : Busy(n)}

FuseAll ==
  /\ Sweeps("fuse", nodes)
  /\ fuse' = TRUE
  /\ UNCHANGED <<dispatch, leases, ratelimited, dead, nodes, pc, at,
                 probe, leaked, crowd, stolen>>

UnfuseAll ==
  /\ Sweeps("unfuse", {n \in Nodes : IsDead(n)})
  /\ fuse' = FALSE
  /\ UNCHANGED <<dispatch, leases, ratelimited, dead, nodes, pc, at,
                 probe, leaked, crowd, stolen>>

\* dispatch.remove, then dead.bury
FuseNode(n) ==
  /\ AdminAt("fuse", "next") /\ n \in admin.todo
  /\ Withdraw(n)
  /\ Visiting(n, "bury")
  /\ UNCHANGED <<ratelimited, dead, nodes, fuse, pc, at, probe, ops,
                 excused>>

FuseBuries ==
  /\ AdminAt("fuse", "bury")
  /\ Bury(admin.node)
  /\ Visited(admin.node)
  /\ UNCHANGED <<dispatch, leases, ratelimited, nodes, fuse, pc, at,
                 probe, ops, history>>

\* dispatch.add for a node of the registry, from which only the administrator
\* removes nodes, then dead.recover
UnfuseNode(n) ==
  /\ AdminAt("unfuse", "next") /\ n \in admin.todo
  /\ IF n \in nodes
     THEN Rejoin(n) /\ Visiting(n, "undead")
     ELSE UNCHANGED dispatch /\ Visited(n)
  /\ UNCHANGED <<leases, ratelimited, dead, nodes, fuse, pc, at, probe,
                 ops, history>>

UnfuseRecovers ==
  /\ AdminAt("unfuse", "undead")
  /\ Undead(admin.node)
  /\ Visited(admin.node)
  /\ UNCHANGED <<dispatch, leases, ratelimited, nodes, fuse, pc, at,
                 probe, ops, history>>

\* dispatch.add, then nodes.insert
AddNode(n) ==
  /\ Calls("add", n, "register")
  /\ Rejoin(n)
  /\ Begins(n)
  /\ UNCHANGED <<leases, ratelimited, dead, nodes, fuse, pc, at, probe,
                 leaked, crowd, stolen>>

AddRegisters ==
  /\ AdminAt("add", "register")
  /\ nodes' = nodes \cup {admin.node}
  /\ Visited(admin.node)
  /\ UNCHANGED <<dispatch, leases, ratelimited, dead, fuse, pc, at,
                 probe, ops, history>>

\* dispatch, ratelimited, dead and nodes, one after the other
RemoveNode(n) ==
  /\ Calls("remove", n, "unlimit")
  /\ Withdraw(n)
  /\ Begins(n)
  /\ UNCHANGED <<ratelimited, dead, nodes, fuse, pc, at, probe>>

RemoveUnlimits ==
  /\ AdminAt("remove", "unlimit")
  /\ ratelimited' = ratelimited \ {admin.node}
  /\ AdminGoes("undead")
  /\ UNCHANGED <<dispatch, leases, dead, nodes, fuse, pc, at, probe,
                 ops, history>>

RemoveUndead ==
  /\ AdminAt("remove", "undead")
  /\ Undead(admin.node)
  /\ AdminGoes("forget")
  /\ UNCHANGED <<dispatch, leases, ratelimited, nodes, fuse, pc, at,
                 probe, ops, history>>

RemoveForgets ==
  /\ AdminAt("remove", "forget")
  /\ nodes' = nodes \ {admin.node}
  /\ Visited(admin.node)
  /\ UNCHANGED <<dispatch, leases, ratelimited, dead, fuse, pc, at,
                 probe, ops, history>>

\* dead.recover, ratelimited.recover; then the fuse decides: with it open the
\* node joins nothing, else dispatch.add and dispatch.release
RecoverNode(n) ==
  /\ Calls("recover", n, "unlimit")
  /\ n \in nodes
  /\ Undead(n)
  /\ Begins(n)
  /\ UNCHANGED <<dispatch, leases, ratelimited, nodes, fuse, pc, at,
                 probe, leaked, crowd, stolen>>

RecoverUnlimits ==
  /\ AdminAt("recover", "unlimit")
  /\ ratelimited' = ratelimited \ {admin.node}
  /\ AdminGoes("rejoin")
  /\ UNCHANGED <<dispatch, leases, dead, nodes, fuse, pc, at, probe,
                 ops, history>>

RecoverFused ==
  /\ AdminAt("recover", "rejoin") /\ fuse
  /\ Withdraw(admin.node)
  /\ Visited(admin.node)
  /\ excused' = excused \cup {admin.node}
  /\ UNCHANGED <<ratelimited, dead, nodes, fuse, pc, at, probe, ops>>

RecoverRejoins ==
  /\ AdminAt("recover", "rejoin") /\ ~fuse
  /\ Rejoin(admin.node)
  /\ AdminGoes("credit")
  /\ UNCHANGED <<leases, ratelimited, dead, nodes, fuse, pc, at, probe,
                 ops, history>>

RecoverCredits ==
  /\ AdminAt("recover", "credit")
  /\ Credit(admin.node)
  /\ Visited(admin.node)
  /\ UNCHANGED <<dispatch, ratelimited, dead, nodes, fuse, pc, at,
                 probe, ops, leaked, crowd, excused>>

-----------------------------------------------------------------------------
RequestStep(r) ==
  \/ Start(r)
  \/ \E n \in Nodes, step \in Loaded : Load(r, n, step)
  \/ Admit(r)
  \/ Diagnose(r)
  \/ Refuse(r)
  \/ AdmitNothing(r)
  \/ Enter(r)
  \/ Abandon(r)
  \/ ReportPlain(r)
  \/ Report429(r)
  \/ Report429Releases(r)
  \/ ReportError(r)
  \/ ReportWithdraws(r)
  \/ ReportBuries(r)
  \/ \E p \in Probes : ReportSpawns(r, p)

ProbeStep(p) ==
  \/ \E n \in Nodes : SpawnPeriodic(p, n)
  \/ \E n \in Nodes : SpawnDead(p, n)
  \/ ProbeFails(p)
  \/ ProbeRecovers(p)
  \/ \E ok \in BOOLEAN : DeadProbeAnswers(p, ok)
  \/ DeadProbeRecovers(p)
  \/ DeadProbeUnlimits(p)
  \/ ProbeRestores(p)
  \/ ProbeCredits(p)

AdminStep ==
  \/ FuseAll \/ FuseBuries
  \/ UnfuseAll \/ UnfuseRecovers
  \/ AddRegisters
  \/ RemoveUnlimits \/ RemoveUndead \/ RemoveForgets
  \/ RecoverUnlimits \/ RecoverFused \/ RecoverRejoins \/ RecoverCredits
  \/ \E n \in Nodes :
       FuseNode(n) \/ UnfuseNode(n) \/ AddNode(n) \/ RemoveNode(n) \/ RecoverNode(n)

Next ==
  \/ \E r \in Requests : RequestStep(r)
  \/ \E p \in Probes : ProbeStep(p)
  \/ AdminStep

Spec == Init /\ [][Next]_vars

-----------------------------------------------------------------------------
(* Properties *)

\* The requests a lease of n belongs to: admitted and not yet reported.  An
\* abandoned request keeps its lease for good.
Holders(n) ==
  {r \in Requests : at[r] = n /\ pc[r] \in {"enter", "serving", "release429", "gone"}}

\* No report path leaks capacity: active_leases never exceeds the requests that
\* were admitted on the node and have not been reported and the leases that a
\* refused scan's diagnostics took for nobody, through removals, re-additions,
\* fuse sweeps and recoveries (dispatch.rs release_lease, manager.rs report).
LeasesCovered == \A n \in Nodes : leases[n] <= Cardinality(Holders(n)) + leaked[n]

\* The count is exact unless a recovery released a lease no request gave back or
\* the PoolNode was dropped with leases on it.
ExactLeases ==
  \A n \in Nodes \ stolen : leases[n] = Cardinality(Holders(n)) + leaked[n]

\* Then the node never serves more than its limit, but for admissions that had
\* loaded the count at one time: all but one of those may pass it.
CapacityHonoured ==
  \A n \in Nodes \ stolen :
    Cardinality(Holders(n)) + leaked[n] < MaxConcurrent + crowd[n]

\* No operation on its own loses a node: a registered node that no operation is
\* working on sits in the rotation or where a recovery worker or unfuse_all
\* looks for it, as long as no two operations overlapped on it and it was not
\* recovered under an open fuse.
KeptInSomePool ==
  \A n \in nodes \ excused :
    Busy(n) \/ n \in dispatch \/ n \in ratelimited \/ IsDead(n)

\* main.rs starts two background workers for "periodic ratelimited-pool recovery
\* (stuck 429 nodes)" and "low-frequency adaptive Dead-pool recovery": a node
\* that leaves the pools they look into is in the rotation when the last operation
\* on it ends, unless the node itself was removed.
Parked(n) == n \in ratelimited \/ IsDead(n)
RecoveryReturnsNode ==
  [][\A n \in nodes \cap nodes' :
       (Parked(n) \/ Busy(n)) /\ ~(Parked(n) \/ Busy(n))' => n \in dispatch']_vars

\* Every admission that loaded the count of n saw room, so the leases, and the
\* admissions about to add to them, pass the limit by less than the crowd.
Crowded ==
  \A n \in Nodes :
    /\ leases[n] + Cardinality(InAdmission(n)) < MaxConcurrent + crowd[n]
    /\ Cardinality(InAdmission(n)) <= crowd[n]

\* The inductive invariant behind LeasesCovered and CapacityHonoured.
LeaseInv ==
  /\ TypeOK
  /\ \A n \in Nodes \ dispatch : leases[n] = 0 /\ InAdmission(n) = {}
  /\ Crowded
  /\ LeasesCovered
  /\ ExactLeases
=============================================================================
