----------------------------- MODULE GlobalBudget -----------------------------
(***************************************************************************)
(* The budget that all proxy instances share for one node                  *)
(* (src/zen-proxy-rs/src/pool/global_budget.rs).  Redis keeps a set of     *)
(* expiring leases, a call counter per window and a cooldown; the two Lua  *)
(* scripts are atomic.  Every instance remembers the ids it was granted,   *)
(* not which request each belongs to, and gives the newest one back first. *)
(* Instances crash, Redis may be unreachable before or after it ran a      *)
(* script, and the instances' clocks differ.                               *)
(*                                                                         *)
(* Of the three window counters, which work alike, only calls is kept, and *)
(* the window turns for all instances at once.                             *)
(***************************************************************************)
EXTENDS Integers, Sequences, FiniteSets, Functions

CONSTANTS
  Instances,      \* proxy processes
  Requests,       \* their request tasks
  Home,           \* the instance of each request
  Skew,           \* how far ahead of Redis's each instance's clock is
  Leases,         \* lease ids; one is used again once nobody remembers it
  MaxConcurrent,
  MaxCalls,
  LeaseTtl,
  CooldownSecs,
  FailOpen,       \* V43_GLOBAL_BUDGET_FAIL_OPEN
  MaxWithdrawn    \* bound on reports for a node that has left the dispatch pool

ASSUME LeasesAssumption == Leases \subseteq Nat /\ IsFiniteSet(Leases)
ASSUME HomeAssumption == Home \in [Requests -> Instances]
ASSUME SkewAssumption == Skew \in [Instances -> Nat]
ASSUME LimitAssumption ==
  /\ MaxConcurrent \in Nat /\ MaxCalls \in Nat /\ CooldownSecs \in Nat
  /\ LeaseTtl \in Nat \ {0}
ASSUME FailOpenAssumption == FailOpen \in BOOLEAN /\ MaxWithdrawn \in Nat

VARIABLES
  zset,       \* zprs:leases:<node>: the score of each member, from Redis's now
  setTtl,     \* that key's time to live
  keys,       \* zprs:lease:<node>:<id>: the time to live of each such key
  calls,      \* calls of zprs:budget:<node>:<window>
  cool,       \* zprs:cooldown:<node>: its time to live and who set it
  local,      \* per instance: local_leases, the newest last
  flight,     \* per request: idle, in flight with a lease, or in flight without
  withdrawn,  \* reports for a withdrawn node so far
  eroded,     \* history: instances where a lease may have gone before its request
  leaked      \* history: a lease may have stayed longer than its request

redis == <<zset, setTtl, keys, calls, cool>>
vars == <<zset, setTtl, keys, calls, cool, local, flight, withdrawn, eroded,
          leaked>>

NoLeases == [l \in {} |-> 0]

TypeOK ==
  /\ DOMAIN zset \subseteq Leases /\ \A l \in DOMAIN zset : zset[l] \in Nat
  /\ setTtl \in 0..LeaseTtl
  /\ DOMAIN keys \subseteq Leases /\ \A l \in DOMAIN keys : keys[l] \in 1..LeaseTtl
  /\ calls \in 0..MaxCalls
  /\ cool \in [ttl : 0..CooldownSecs, by : Instances]
  /\ local \in [Instances -> Seq(Leases)]
  /\ flight \in [Requests -> {"idle", "leased", "open"}]
  /\ withdrawn \in 0..MaxWithdrawn
  /\ eroded \in SUBSET Instances
  /\ leaked \in BOOLEAN

Init ==
  /\ zset = NoLeases
  /\ setTtl = 0
  /\ keys = NoLeases
  /\ calls = 0
  /\ cool \in [ttl : {0}, by : Instances]
  /\ local = [i \in Instances |-> <<>>]
  /\ flight = [r \in Requests |-> "idle"]
  /\ withdrawn = 0
  /\ eroded = {}
  /\ leaked = FALSE

-----------------------------------------------------------------------------
(* History *)

InFlight(i) == {r \in Requests : Home[r] = i /\ flight[r] = "leased"}

\* The leases of instance i that Redis counts and i remembers.
Backing(i) == Range(local[i]) \cap DOMAIN zset

\* Both histories end when there is nothing left that they could explain.
Erodes(S) ==
  eroded' = {i \in eroded \cup S :
               \E r \in Requests : Home[r] = i /\ flight'[r] = "leased"}
Leaks(yes) == leaked' = ((leaked \/ yes) /\ DOMAIN zset' # {})

\* The instances that remember a lease which Redis no longer counts.
Losers == {i \in Instances : \E l \in Backing(i) : l \notin DOMAIN zset'}

-----------------------------------------------------------------------------
(* The acquire script, run with the clock of instance i *)

Counted(i) == {l \in DOMAIN zset : zset[l] > Skew[i]}

Cooling(i) == cool.ttl > 0 /\ cool.ttl + Skew[cool.by] > Skew[i]
Full(i) == Cardinality(Counted(i)) >= MaxConcurrent
Spent == calls >= MaxCalls

\* The script purges expired members before it counts them.
Purge(i) == zset' = Restrict(zset, Counted(i))

Fresh == Leases \ (DOMAIN zset \cup DOMAIN keys
                   \cup UNION {Range(local[i]) : i \in Instances})

\* Mutant of ScriptGrants: compares with > instead of >=.
ScriptOverfills(i, l) ==
  /\ ~Cooling(i) /\ ~Spent
  /\ Cardinality(Counted(i)) <= MaxConcurrent
  /\ zset' = [m \in Counted(i) \cup {l} |->
                IF m = l THEN LeaseTtl + Skew[i] ELSE zset[m]]
  /\ setTtl' = LeaseTtl
  /\ keys' = [m \in DOMAIN keys \cup {l} |-> IF m = l THEN LeaseTtl ELSE keys[m]]
  /\ calls' = calls + 1
  /\ UNCHANGED cool

\* Mutant of ScriptGrants: does not look at the window budget.
ScriptOverspends(i, l) ==
  /\ ~Cooling(i) /\ ~Full(i)
  /\ zset' = [m \in Counted(i) \cup {l} |->
                IF m = l THEN LeaseTtl + Skew[i] ELSE zset[m]]
  /\ setTtl' = LeaseTtl
  /\ keys' = [m \in DOMAIN keys \cup {l} |-> IF m = l THEN LeaseTtl ELSE keys[m]]
  /\ calls' = calls + 1
  /\ UNCHANGED cool

ScriptGrants(i, l) ==
  /\ ~Cooling(i) /\ ~Full(i) /\ ~Spent
  /\ zset' = [m \in Counted(i) \cup {l} |->
                IF m = l THEN LeaseTtl + Skew[i] ELSE zset[m]]
  /\ setTtl' = LeaseTtl
  /\ keys' = [m \in DOMAIN keys \cup {l} |-> IF m = l THEN LeaseTtl ELSE keys[m]]
  /\ calls' = calls + 1
  /\ UNCHANGED cool

\* Only a spent window starts a cooldown.  Redis takes no expiry of zero: with
\* CooldownSecs = 0 the script fails at that point.
BudgetHit(i) == ~Cooling(i) /\ ~Full(i) /\ Spent

\* Mutant of ScriptRefuses: starts the cooldown on every refusal.
ScriptRefusesRearming(i) ==
  /\ Cooling(i) \/ Full(i) \/ Spent
  /\ Purge(i)
  /\ cool' = [ttl |-> CooldownSecs, by |-> i]
  /\ UNCHANGED <<setTtl, keys, calls>>

ScriptRefuses(i) ==
  /\ Cooling(i) \/ Full(i) \/ Spent
  /\ Purge(i)
  /\ cool' = IF BudgetHit(i) /\ CooldownSecs > 0
             THEN [ttl |-> CooldownSecs, by |-> i]
             ELSE cool
  /\ UNCHANGED <<setTtl, keys, calls>>

-----------------------------------------------------------------------------
(* try_acquire, as global_admit uses it *)

\* The first fresh id stands for any of them.
NextLease(l) == l \in Fresh /\ \A m \in Fresh : l <= m

\* The request is admitted without a lease or not at all.
WithoutRedis(r) ==
  flight' = [flight EXCEPT ![r] = IF FailOpen THEN "open" ELSE "idle"]

\* Mutant of Acquire: does not remember the lease id.
AcquireForgets(r) ==
  LET i == Home[r]
  IN /\ flight[r] = "idle"
     /\ \E l \in Leases : NextLease(l) /\ ScriptGrants(i, l)
     /\ flight' = [flight EXCEPT ![r] = "leased"]
     /\ Erodes(Losers)
     /\ Leaks(FALSE)
     /\ UNCHANGED <<local, withdrawn>>

Acquire(r) ==
  LET i == Home[r]
  IN /\ flight[r] = "idle"
     /\ \E l \in Leases :
          /\ NextLease(l)
          /\ ScriptGrants(i, l)
          /\ local' = [local EXCEPT ![i] = Append(@, l)]
     /\ flight' = [flight EXCEPT ![r] = "leased"]
     /\ Erodes(Losers)
     /\ Leaks(FALSE)
     /\ UNCHANGED withdrawn

Rejected(r) ==
  LET i == Home[r]
  IN /\ flight[r] = "idle"
     /\ ScriptRefuses(i)
     /\ IF BudgetHit(i) /\ CooldownSecs = 0
        THEN WithoutRedis(r)
        ELSE UNCHANGED flight
     /\ Erodes(Losers)
     /\ Leaks(FALSE)
     /\ UNCHANGED <<local, withdrawn>>

Unreachable(r) ==
  /\ flight[r] = "idle"
  /\ WithoutRedis(r)
  /\ Erodes({})
  /\ UNCHANGED <<redis, local, withdrawn, leaked>>

\* Redis runs the script and the connection breaks before the answer is read.
ReplyLost(r) ==
  LET i == Home[r]
  IN /\ flight[r] = "idle"
     /\ \/ \E l \in Leases : NextLease(l) /\ ScriptGrants(i, l) /\ Leaks(TRUE)
        \/ ScriptRefuses(i) /\ Leaks(FALSE)
     /\ WithoutRedis(r)
     /\ Erodes(Losers)
     /\ UNCHANGED <<local, withdrawn>>

-----------------------------------------------------------------------------
(* release_one *)

\* Mutant of ReleaseScript: deletes the key and not the member.
ReleaseKeepsMember(l) ==
  /\ keys' = Restrict(keys, DOMAIN keys \ {l})
  /\ UNCHANGED zset

\* The release script drops a lease whose own key has not expired.
ReleaseScript(l) ==
  IF l \in DOMAIN keys
  THEN /\ keys' = Restrict(keys, DOMAIN keys \ {l})
       /\ zset' = Restrict(zset, DOMAIN zset \ {l})
  ELSE UNCHANGED <<keys, zset>>

\* Pops the newest id and then runs the script, whose failure is ignored: the
\* lease then lives on until it expires.
ReleaseOne(i) ==
  IF local[i] = <<>>
  THEN UNCHANGED <<redis, local, leaked>>
  ELSE LET l == local[i][Len(local[i])]
       IN /\ local' = [local EXCEPT ![i] = SubSeq(@, 1, Len(@) - 1)]
          /\ UNCHANGED <<setTtl, calls, cool>>
          /\ \/ ReleaseScript(l) /\ Leaks(l \in DOMAIN zset \ DOMAIN keys)
             \/ UNCHANGED <<zset, keys>> /\ Leaks(TRUE)

\* The request is reported on a node that is still in the dispatch pool.  One
\* that was admitted without a lease gives back somebody else's.
Report(r) ==
  /\ flight[r] # "idle"
  /\ flight' = [flight EXCEPT ![r] = "idle"]
  /\ ReleaseOne(Home[r])
  /\ Erodes(IF flight[r] = "open" THEN {Home[r]} ELSE {})
  /\ UNCHANGED withdrawn

\* release_with_latency finds no PoolNode and leaves the lease alone.
ReportWithdrawn(r) ==
  /\ flight[r] # "idle"
  /\ withdrawn < MaxWithdrawn
  /\ withdrawn' = withdrawn + 1
  /\ flight' = [flight EXCEPT ![r] = "idle"]
  /\ UNCHANGED <<redis, local>>
  /\ Erodes({})
  /\ Leaks(flight[r] = "leased")

\* A recovered node is credited with a release that no request stands behind.
Credit(i) ==
  /\ local[i] # <<>>
  /\ ReleaseOne(i)
  /\ UNCHANGED <<flight, withdrawn>>
  /\ Erodes({i})

-----------------------------------------------------------------------------
(* Crashes and time *)

Crash(i) ==
  /\ local' = [local EXCEPT ![i] = <<>>]
  /\ flight' = [r \in Requests |-> IF Home[r] = i THEN "idle" ELSE flight[r]]
  /\ UNCHANGED <<redis, withdrawn>>
  /\ Erodes({})
  /\ Leaks(TRUE)

Earlier(n) == IF n > 0 THEN n - 1 ELSE 0

\* A tick expires Redis's keys; a set member stays until a script purges it or
\* the whole set expires.
Tick ==
  /\ setTtl > 0 \/ cool.ttl > 0 \/ DOMAIN keys # {}
  /\ setTtl' = Earlier(setTtl)
  /\ zset' = IF setTtl <= 1 THEN NoLeases
             ELSE [l \in DOMAIN zset |-> Earlier(zset[l])]
  /\ keys' = [l \in {m \in DOMAIN keys : keys[m] > 1} |-> keys[l] - 1]
  /\ cool' = [cool EXCEPT !.ttl = Earlier(@)]
  /\ UNCHANGED <<calls, local, flight, withdrawn>>
  /\ Erodes(Losers)
  /\ Leaks(FALSE)

\* The next window's key has no calls yet.
NextWindow ==
  /\ calls > 0
  /\ calls' = 0
  /\ UNCHANGED <<zset, setTtl, keys, cool, local, flight, withdrawn, eroded,
                 leaked>>

-----------------------------------------------------------------------------
Next ==
  \/ \E r \in Requests :
       \/ Acquire(r)
       \/ Rejected(r)
       \/ Unreachable(r)
       \/ ReplyLost(r)
       \/ Report(r)
       \/ ReportWithdrawn(r)
  \/ \E i \in Instances : Credit(i) \/ Crash(i)
  \/ Tick
  \/ NextWindow

\* Time passes, requests end, and Redis answers a grant it could give again and
\* again: an outage does not last for ever.
Fairness ==
  /\ WF_vars(Tick) /\ WF_vars(NextWindow)
  /\ \A r \in Requests : WF_vars(Report(r))
  /\ SF_vars(\E r \in Requests : Acquire(r))

Spec == Init /\ [][Next]_vars /\ Fairness

-----------------------------------------------------------------------------
(* Properties *)

\* Redis never counts more leases than the shared limit: granting one is an
\* implementation of Permits, whatever expires, is purged by a clock that is
\* ahead, or is released twice (global_budget.rs acquire script).
Granting == INSTANCE Permits WITH
  Permit <- Leases, Limit <- MaxConcurrent, out <- DOMAIN zset
ImplementsPermits == Granting!Spec

\* Every request in flight with a lease is backed by one that Redis counts, so
\* the instances together never exceed the shared limit, unless a lease ran out
\* under its request, a request admitted without one gave back another's, or a
\* recovery did; once the instance has no leased request left, it is sound again.
InFlightBacked ==
  \A i \in Instances \ eroded :
    Cardinality(InFlight(i)) <= Cardinality(Backing(i))
Leased == {r \in Requests : flight[r] = "leased"}
SharedLimitHonoured ==
  /\ InFlightBacked
  /\ eroded = {} => Cardinality(Leased) <= MaxConcurrent

\* Capacity is lost to a lease without a request only after a crash, a lost answer,
\* a release that failed or a report on a withdrawn node, and no longer than the
\* leases take to expire.
CapacityKept ==
  leaked \/ Cardinality(DOMAIN zset) <= Cardinality(Leased)

\* No crash, outage, spent window or cooldown shuts the node out for good: requests
\* are granted leases again and again.
GrantsGoOn == []<><<\E r \in Requests : Acquire(r)>>_vars
=============================================================================
