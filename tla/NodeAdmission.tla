---------------------------- MODULE NodeAdmission ----------------------------
(***************************************************************************)
(* Admission to one node of the dispatch pool                              *)
(* (src/zen-proxy-rs/src/pool/dispatch.rs).  Admissions run in parallel    *)
(* under the read lock of the node's shard and check the lease count, the  *)
(* local budget and the shared Redis budget one after the other; a release *)
(* takes the write lock, so it excludes all of them.                       *)
(*                                                                         *)
(* The other nodes of the shards appear as the freedom to pass this one    *)
(* over.  The Redis answer is any of its outcomes; GlobalBudget models it. *)
(***************************************************************************)
EXTENDS Integers, FiniteSets, FiniteSetsExt

CONSTANTS
  Threads,        \* request tasks, each admitted at most once at a time
  Resources,      \* what the window budget counts: calls, tokens, kilobytes
  Preflighted,    \* the resources preflight compares with their limit
  Costs,          \* the costs a request may have
  Limit,          \* max_calls_per_window, max_tokens_per_window, ...
  CooldownSecs,
  MaxLate,        \* seconds an admission may take, a bound on its stale clock
  MinConcurrent, MaxConcurrent, SuccessStep, FailurePercent,  \* AimdConfig
  FailOpen        \* global_budget_fail_open

Larger(a, b) == IF a > b THEN a ELSE b
Smaller(a, b) == IF a < b THEN a ELSE b

\* Only the floor and the start are clamped to one; the ceiling is as configured.
Floor == Larger(MinConcurrent, 1)
Ceiling == Larger(MaxConcurrent, MinConcurrent)
InitialLimit == Larger(Smaller(5, Larger(MaxConcurrent, Floor)), Floor)

NoCost == [k \in Resources |-> 0]

\* Nobody's clock is so far behind that the cooldown is not over for it.
Over == -MaxLate

ASSUME ThreadsAssumption == IsFiniteSet(Threads)
ASSUME ResourcesAssumption == Preflighted \subseteq Resources
ASSUME CostsAssumption == Costs \subseteq [Resources -> Nat]
ASSUME LimitAssumption == Limit \in [Resources -> Nat]
ASSUME CooldownAssumption ==
  MaxLate \in Nat /\ CooldownSecs \in Nat /\ MaxLate < CooldownSecs
\* With both limits configured as zero the third success would close the node.
ASSUME AimdAssumption ==
  /\ MinConcurrent \in Nat /\ MaxConcurrent \in Nat
  /\ MinConcurrent + MaxConcurrent > 0
  /\ SuccessStep \in Nat \ {0} /\ FailurePercent \in 1..99
ASSUME FailOpenAssumption == FailOpen \in BOOLEAN

VARIABLES
  leases,      \* active_leases
  limit,       \* max_concurrent, moved by AIMD
  streak,      \* consecutive_successes, of which only the third counts
  used,        \* calls_in_window, tokens_in_window, kb_in_window
  cooldown,    \* seconds until cooldown_until, Over when it is none or past
  remembered,  \* length of active_requests
  pc,          \* where each task is in its admission
  cost,        \* its request's cost
  late,        \* seconds since it read the clock
  seen,        \* the active_leases it loaded before it took the budget lock
  after,       \* where it goes on when this attempt is refused
  leaked,      \* history: leases the diagnostics pass took for nobody
  overlapped   \* history: an admission began while another was under way

node == <<leases, limit, streak, used, cooldown, remembered>>
history == <<leaked, overlapped>>
vars == <<leases, limit, streak, used, cooldown, remembered,
          pc, cost, late, seen, after, leaked, overlapped>>

PC == {"idle", "sample", "scan", "best", "sticky", "load", "admit", "global",
       "remember", "rollback", "refund", "diagLoad", "diagAdmit", "serving"}

\* The steps a task makes while it holds the shard's read lock.
Inside == {"scan", "load", "admit", "global", "remember", "rollback", "refund",
           "diagLoad", "diagAdmit"}

TypeOK ==
  /\ leases \in Nat
  /\ limit \in Floor..Ceiling
  /\ streak \in 0..2
  /\ used \in [Resources -> Nat]
  /\ cooldown \in Over..CooldownSecs
  /\ remembered \in Nat
  /\ pc \in [Threads -> PC]
  /\ cost \in [Threads -> Costs \cup {NoCost}]
  /\ late \in [Threads -> 0..MaxLate]
  /\ seen \in [Threads -> Nat]
  /\ after \in [Threads -> PC]
  /\ leaked \in Nat
  /\ overlapped \in BOOLEAN

Init ==
  /\ leases = 0
  /\ limit = InitialLimit
  /\ streak = 0
  /\ used = [k \in Resources |-> 0]
  /\ cooldown = Over
  /\ remembered = 0
  /\ pc = [t \in Threads |-> "idle"]
  /\ cost = [t \in Threads |-> NoCost]
  /\ late = [t \in Threads |-> 0]
  /\ seen = [t \in Threads |-> 0]
  /\ after = [t \in Threads |-> "idle"]
  /\ leaked = 0
  /\ overlapped = FALSE

-----------------------------------------------------------------------------
(* NodeBudget *)

Oversize(c) == \E k \in Preflighted : c[k] > Limit[k]
Fits(c) == \A k \in Resources : used[k] + c[k] <= Limit[k]
Cooling(t) == cooldown + late[t] > 0
CanAdmit(t, concurrent) ==
  ~Cooling(t) /\ concurrent < limit /\ Fits(cost[t])

Charge(c) == used' = [k \in Resources |-> used[k] + c[k]]
Refund(c) == used' = [k \in Resources |-> Larger(used[k] - c[k], 0)]

\* try_admit clears a cooldown that is over.  A refusal starts one only when the
\* window budget caused it: the checks run in the order cooldown, concurrency,
\* budget.
ClearCooldown(t) == cooldown' = IF Cooling(t) THEN cooldown ELSE Over
\* Mutant of Refusal: starts the cooldown again during one.
RearmingRefusal(t, concurrent) ==
  IF Cooling(t) \/ (concurrent < limit /\ ~Fits(cost[t]))
  THEN cooldown' = CooldownSecs - late[t]
  ELSE ClearCooldown(t)

Refusal(t, concurrent) ==
  IF ~Cooling(t) /\ concurrent < limit /\ ~Fits(cost[t])
  THEN cooldown' = CooldownSecs - late[t]
  ELSE ClearCooldown(t)

-----------------------------------------------------------------------------
(* acquire_for_excluding: affinity or pin, a sampled node, a weighted one, the
   best of all shards *)

\* A task keeps its request's cost until it is reported, its clock and the next
\* resort while it is being admitted.
GoTo(t, step) ==
  /\ pc' = [pc EXCEPT ![t] = step]
  /\ cost' = IF step = "idle" THEN [cost EXCEPT ![t] = NoCost] ELSE cost
  /\ IF step \in {"idle", "serving"}
     THEN late' = [late EXCEPT ![t] = 0] /\ after' = [after EXCEPT ![t] = "idle"]
     ELSE UNCHANGED <<late, after>>
  /\ seen' = [seen EXCEPT ![t] = 0]

\* try_acquire_sticky reads the clock anew, the other attempts share one reading.
Attempt(t, step, otherwise) ==
  /\ pc' = [pc EXCEPT ![t] = step]
  /\ after' = [after EXCEPT ![t] = otherwise]
  /\ late' = IF step = "sticky" THEN [late EXCEPT ![t] = 0] ELSE late
  /\ UNCHANGED <<cost, seen>>

Admitting == {t \in Threads : pc[t] \notin {"idle", "serving"}}

\* preflight refuses what could never fit.
Arrive(t, c) ==
  /\ pc[t] = "idle"
  /\ ~Oversize(c)
  /\ cost' = [cost EXCEPT ![t] = c]
  /\ \E first \in {<<"sticky", "sample">>, <<"sample", "idle">>} :
       /\ pc' = [pc EXCEPT ![t] = first[1]]
       /\ after' = [after EXCEPT ![t] = first[2]]
  /\ overlapped' = (overlapped \/ Admitting # {})
  /\ UNCHANGED <<node, late, seen, leaked>>

\* Eight random nodes, of which the best-scored admissible one is tried.
Sample(t) ==
  /\ pc[t] = "sample"
  /\ \/ CanAdmit(t, leases) /\ Attempt(t, "load", "scan")
     \/ GoTo(t, "scan")
  /\ UNCHANGED <<node, history>>

\* One of the admissible nodes; when the shard has none, every node is tried
\* for the sake of its diagnostics.
Scan(t) ==
  /\ pc[t] = "scan"
  /\ \/ CanAdmit(t, leases) /\ Attempt(t, "load", "best")
     \/ ~CanAdmit(t, leases) /\ GoTo(t, "diagLoad")
     \/ GoTo(t, "best")
  /\ UNCHANGED <<node, history>>

\* The eight best-scored admissible nodes of all shards, by try_acquire_sticky.
Best(t) ==
  /\ pc[t] = "best"
  /\ \/ CanAdmit(t, leases) /\ Attempt(t, "sticky", "idle")
     \/ GoTo(t, "idle")
  /\ UNCHANGED <<node, history>>

\* try_admit loads the lease count before it takes the budget's lock.
Load(t) ==
  /\ pc[t] \in {"load", "sticky", "diagLoad"}
  /\ seen' = [seen EXCEPT ![t] = leases]
  /\ pc' = [pc EXCEPT ![t] = IF @ = "diagLoad" THEN "diagAdmit" ELSE "admit"]
  /\ UNCHANGED <<node, cost, late, after, history>>

\* Mutant of Admit: takes a lease and charges nothing.
AdmitUncounted(t) ==
  /\ pc[t] = "admit"
  /\ CanAdmit(t, seen[t])
  /\ leases' = leases + 1
  /\ ClearCooldown(t)
  /\ GoTo(t, "global")
  /\ UNCHANGED <<limit, streak, used, remembered, history>>

Admit(t) ==
  /\ pc[t] = "admit"
  /\ CanAdmit(t, seen[t])
  /\ leases' = leases + 1
  /\ Charge(cost[t])
  /\ ClearCooldown(t)
  /\ GoTo(t, "global")
  /\ UNCHANGED <<limit, streak, remembered, history>>

Refuse(t) ==
  /\ pc[t] = "admit"
  /\ ~CanAdmit(t, seen[t])
  /\ Refusal(t, seen[t])
  /\ GoTo(t, after[t])
  /\ UNCHANGED <<leases, limit, streak, used, remembered, history>>

\* The diagnostics pass drops the answer of try_admit, a lease included.
Diagnose(t) ==
  /\ pc[t] = "diagAdmit"
  /\ IF CanAdmit(t, seen[t])
     THEN /\ leases' = leases + 1
          /\ Charge(cost[t])
          /\ leaked' = leaked + 1
          /\ ClearCooldown(t)
     ELSE /\ Refusal(t, seen[t])
          /\ UNCHANGED <<leases, used, leaked>>
  /\ GoTo(t, "best")
  /\ UNCHANGED <<limit, streak, remembered, overlapped>>

-----------------------------------------------------------------------------
(* global_admit and what follows it *)

GlobalAdmits(t) ==
  /\ pc[t] = "global"
  /\ GoTo(t, "remember")
  /\ UNCHANGED <<node, history>>

\* One of the five rejections: the node cools down.
GlobalRejects(t) ==
  /\ pc[t] = "global"
  /\ cooldown' = CooldownSecs
  /\ GoTo(t, "rollback")
  /\ UNCHANGED <<leases, limit, streak, used, remembered, history>>

\* Redis unreachable: no cooldown, and local limits alone when failing open.
GlobalDown(t) ==
  /\ pc[t] = "global"
  /\ GoTo(t, IF FailOpen THEN "remember" ELSE "rollback")
  /\ UNCHANGED <<node, history>>

\* remember_admit trims its queue to the lease count.
Remember(t) ==
  /\ pc[t] = "remember"
  /\ remembered' = Smaller(remembered + 1, leases)
  /\ GoTo(t, "serving")
  /\ UNCHANGED <<leases, limit, streak, used, cooldown, history>>

\* Mutant of Rollback: leaves the lease behind.
RollbackKeepsLease(t) ==
  /\ pc[t] = "rollback"
  /\ GoTo(t, "refund")
  /\ UNCHANGED <<node, history>>

\* rollback_local_admit gives back the lease, then the charge.
Rollback(t) ==
  /\ pc[t] = "rollback"
  /\ leases' = Larger(leases - 1, 0)
  /\ GoTo(t, "refund")
  /\ UNCHANGED <<limit, streak, used, cooldown, remembered, history>>

RollbackBudget(t) ==
  /\ pc[t] = "refund"
  /\ Refund(cost[t])
  /\ GoTo(t, after[t])
  /\ UNCHANGED <<leases, limit, streak, cooldown, remembered, history>>

-----------------------------------------------------------------------------
(* release_with_latency *)

\* Mutant of Reduced: has no lower bound.
ReducedNoFloor(n) == (n * FailurePercent) \div 100

Reduced(n) == Larger((n * FailurePercent) \div 100, Floor)
Raised(n) == Smaller(n + SuccessStep, Ceiling)

\* Nobody holds the shard's lock.
ShardFree == \A t \in Threads : pc[t] \notin Inside

\* Mutant of GiveBack: leaves the metadata queued.
GiveBackKeepsMeta(t) ==
  /\ pc[t] = "serving"
  /\ ShardFree
  /\ leases' = Larger(leases - 1, 0)
  /\ GoTo(t, "idle")
  /\ UNCHANGED <<used, cooldown, remembered, history>>

GiveBack(t) ==
  /\ pc[t] = "serving"
  /\ ShardFree
  /\ leases' = Larger(leases - 1, 0)
  /\ remembered' = Larger(remembered - 1, 0)
  /\ GoTo(t, "idle")
  /\ UNCHANGED <<used, cooldown, history>>

\* Every third success in a row raises the limit; a slow one reduces it.
ReleaseSuccess(t, slow) ==
  LET raised == IF streak = 2 THEN Raised(limit) ELSE limit
  IN /\ GiveBack(t)
     /\ streak' = (streak + 1) % 3
     /\ limit' = IF slow THEN Reduced(raised) ELSE raised

\* RateLimited, EmptyOutput, SoftFailure and Error.
ReleaseFailure(t) ==
  /\ GiveBack(t)
  /\ streak' = 0
  /\ limit' = Reduced(limit)

ReleaseClientGone(t) ==
  /\ GiveBack(t)
  /\ UNCHANGED <<streak, limit>>

\* A second passes.  The tasks that are being admitted hold on to the clock they
\* read when they began, for no longer than MaxLate.
Tick ==
  /\ \A t \in Admitting : late[t] < MaxLate
  /\ \/ cooldown > Over
     \/ Admitting # {}
  /\ cooldown' = Larger(cooldown - 1, Over)
  /\ late' = [t \in Threads |-> IF t \in Admitting THEN late[t] + 1 ELSE 0]
  /\ UNCHANGED <<leases, limit, streak, used, remembered, pc, cost, seen,
                 after, history>>

-----------------------------------------------------------------------------
Admission(t) ==
  \/ Sample(t)
  \/ Scan(t)
  \/ Best(t)
  \/ Load(t)
  \/ Admit(t)
  \/ Refuse(t)
  \/ Diagnose(t)
  \/ GlobalAdmits(t)
  \/ GlobalRejects(t)
  \/ GlobalDown(t)
  \/ Remember(t)
  \/ Rollback(t)
  \/ RollbackBudget(t)

Release(t) ==
  \/ \E slow \in BOOLEAN : ReleaseSuccess(t, slow)
  \/ ReleaseFailure(t)
  \/ ReleaseClientGone(t)

Next ==
  \/ \E t \in Threads :
       (\E c \in Costs : Arrive(t, c)) \/ Admission(t) \/ Release(t)
  \/ Tick

\* Admission code runs to its end, every answer is reported, and time passes.
\* A waiting writer keeps new readers out of a shard's lock, so overlapping
\* admissions do not hold a report up for ever.
Fairness ==
  /\ \A t \in Threads : WF_vars(Admission(t)) /\ SF_vars(Release(t))
  /\ WF_vars(Tick)

Spec == Init /\ [][Next]_vars /\ Fairness

-----------------------------------------------------------------------------
(* Properties *)

Holding(t) == pc[t] \in {"global", "remember", "rollback", "serving"}
Holders == {t \in Threads : Holding(t)}

\* Every lease of the node has an owner: a request being served, an admission
\* under way, or the diagnostics pass that dropped it (dispatch.rs try_admit,
\* release_lease, rollback_local_admit); no refusal or rollback loses or duplicates
\* one.  The diagnostics pass tries nodes it has just found inadmissible, so it
\* drops a lease only when a second admission changed the node in between: by a
\* rollback, or by clearing a cooldown its own clock still sees.
LeasesAccounted ==
  /\ leases = Cardinality(Holders) + leaked
  /\ leaked > 0 => overlapped

\* Charged(k): what the holders of leases were charged of resource k.
Charged(k) == MapThenSumSet(LAMBDA t : cost[t][k], Holders)

\* Parallel admissions together keep the node's limits.  The budget's check and
\* charge share one lock: no window counter passes its limit, and what is being
\* served stays charged, whatever is rolled back beside it.  The lease count is
\* loaded before that lock is taken, so admissions may pass the concurrency limit
\* together, but by less than one each.
ServedStaysCharged == \A k \in Resources : Charged(k) <= used[k]
WindowKept == \A k \in Resources : used[k] <= Limit[k]
OvershootBounded == leases < Ceiling + Cardinality(Threads)
LimitsHonoured == ServedStaysCharged /\ WindowKept /\ OvershootBounded

\* Every served request has its metadata queued for the latency statistics, and
\* the queue never outgrows the leases, whatever admissions were rolled back.
RememberedServed ==
  remembered = Cardinality({t \in Threads : pc[t] = "serving"})

\* A cooldown ends: being refused during one does not start it again.
CooldownEnds == (cooldown > 0) ~> (cooldown <= 0)

\* The budget counts calls_in_window, tokens_in_window and kb_in_window against
\* max_calls_per_window and the others, and a budget that is hit starts a
\* cooldown: a node that spent its window admits such a request again later.
WindowReopens ==
  \A c \in Costs :
    (\A k \in Resources : c[k] <= Limit[k]) => (~Fits(c) ~> Fits(c))
=============================================================================
