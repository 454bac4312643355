------------------------- MODULE GlobalBudget_proofs -------------------------
(***************************************************************************)
(* Proofs about the shared budget, for any instances, clocks, limits and   *)
(* lease times.  It implements Permits: what the acquire script counts     *)
(* never passes the shared limit.  What is in flight is backed by it, and  *)
(* what it counts is in flight, but for the exceptions that the model's    *)
(* histories name.                                                         *)
(***************************************************************************)
EXTENDS GlobalBudget, FiniteSetTheorems, FunctionTheorems, SequenceTheorems, TLAPS

USE DEF redis

\* What the refinement needs to know of a state: the set's members are lease ids,
\* so there are finitely many, and a score for each.
Members == DOMAIN zset \subseteq Leases

\* A script's purge leaves a finite part of the set.
LEMMA CountedFinite ==
  ASSUME Members, NEW i \in Instances
  PROVE  /\ IsFiniteSet(Counted(i))
         /\ Cardinality(Counted(i)) \in Nat
         /\ Counted(i) \subseteq DOMAIN zset
<1>1. Counted(i) \subseteq DOMAIN zset
  BY DEF Counted
<1>2. IsFiniteSet(Counted(i))
  BY <1>1, FS_Subset, LeasesAssumption DEF Members
<1> QED
  BY <1>1, <1>2, FS_CardinalityType

\* Running the acquire script grants one permit, and lapses those it purges.
LEMMA GrantsPermit ==
  ASSUME Members, NEW i \in Instances, NEW l \in Leases,
         l \in Fresh, ScriptGrants(i, l)
  PROVE  Members' /\ Granting!Next
<1> DEFINE gone == DOMAIN zset \ Counted(i)
<1>1. DOMAIN zset \ gone = Counted(i)
  BY CountedFinite
<1>2. DOMAIN zset' = Counted(i) \cup {l}
  BY DEF ScriptGrants
<1>3. Cardinality(Counted(i)) < MaxConcurrent
  BY CountedFinite, LimitAssumption DEF ScriptGrants, Full
<1>4. l \notin DOMAIN zset
  BY DEF Fresh
<1>5. Granting!Cardinality(Counted(i)) = Cardinality(Counted(i))
  BY DEF Cardinality, Granting!Cardinality
<1>6. Granting!Grant(l, gone)
  BY <1>1, <1>2, <1>3, <1>4, <1>5 DEF Granting!Grant
<1>7. gone \in SUBSET DOMAIN zset
  OBVIOUS
<1>8. Granting!Next
  BY <1>6, <1>7 DEF Granting!Next
<1> QED
  BY <1>2, <1>8, CountedFinite DEF Members

\* Whatever only takes members away is a lapse.
LEMMA FewerLapse ==
  ASSUME Members, DOMAIN zset' \subseteq DOMAIN zset
  PROVE  Members' /\ Granting!Next
<1> DEFINE gone == DOMAIN zset \ DOMAIN zset'
<1>1. Granting!Lapse(gone)
  BY DEF Granting!Lapse
<1>2. gone \in SUBSET DOMAIN zset
  OBVIOUS
<1>3. Granting!Next
  BY <1>1, <1>2 DEF Granting!Next
<1> QED
  BY <1>3 DEF Members

\* A refusal only purges.
LEMMA RefusalPurges ==
  ASSUME NEW i \in Instances, ScriptRefuses(i)
  PROVE  DOMAIN zset' \subseteq DOMAIN zset
BY DEF ScriptRefuses, Purge, Restrict, Counted

\* release_one only takes away.
LEMMA ReleaseTakesAway ==
  ASSUME NEW i \in Instances, ReleaseOne(i)
  PROVE  DOMAIN zset' \subseteq DOMAIN zset
BY DEF ReleaseOne, ReleaseScript, Restrict

\* Every step grants one permit, takes permits away, or changes none.
LEMMA StepImplements ==
  ASSUME Members, [Next]_vars
  PROVE  Members' /\ [Granting!Next]_(DOMAIN zset)
<1>1. CASE UNCHANGED vars
  BY <1>1 DEF vars, Members
<1>2. ASSUME NEW r \in Requests, Acquire(r)
      PROVE  Members' /\ Granting!Next
  <2>1. Home[r] \in Instances
    BY HomeAssumption
  <2> QED
    BY <1>2, <2>1, GrantsPermit DEF Acquire, NextLease
<1>3. ASSUME NEW r \in Requests, Rejected(r)
      PROVE  Members' /\ Granting!Next
  <2>1. Home[r] \in Instances
    BY HomeAssumption
  <2> QED
    BY <1>3, <2>1, RefusalPurges, FewerLapse DEF Rejected
<1>4. ASSUME NEW r \in Requests, ReplyLost(r)
      PROVE  Members' /\ Granting!Next
  <2>1. Home[r] \in Instances
    BY HomeAssumption
  <2> QED
    BY <1>4, <2>1, GrantsPermit, RefusalPurges, FewerLapse
    DEF ReplyLost, NextLease
<1>5. ASSUME NEW r \in Requests, Report(r)
      PROVE  Members' /\ Granting!Next
  <2>1. Home[r] \in Instances
    BY HomeAssumption
  <2> QED
    BY <1>5, <2>1, ReleaseTakesAway, FewerLapse DEF Report
<1>6. ASSUME NEW i \in Instances, Credit(i)
      PROVE  Members' /\ Granting!Next
  BY <1>6, ReleaseTakesAway, FewerLapse DEF Credit
<1>7. CASE Tick
  BY <1>7, FewerLapse DEF Tick, NoLeases
<1>8. ASSUME UNCHANGED zset
      PROVE  Members' /\ UNCHANGED DOMAIN zset
  BY <1>8 DEF Members
<1>9. ASSUME NEW r \in Requests, Unreachable(r) \/ ReportWithdrawn(r)
      PROVE  UNCHANGED zset
  BY <1>9 DEF Unreachable, ReportWithdrawn
<1>10. ASSUME NEW i \in Instances, Crash(i)
       PROVE  UNCHANGED zset
  BY <1>10 DEF Crash
<1>11. CASE NextWindow
  BY <1>8, <1>11 DEF NextWindow
<1> QED
  BY <1>1, <1>2, <1>3, <1>4, <1>5, <1>6, <1>7, <1>8, <1>9, <1>10, <1>11
  DEF Next

\* The leases Redis counts are the permits of Permits: a grant never passes the
\* shared limit, from any state the instances and Redis can bring about
\* (global_budget.rs try_acquire and release).
THEOREM BudgetImplementsPermits == Spec => ImplementsPermits
<1>1. Init => Members /\ Granting!Init
  BY DEF Init, NoLeases, Members, Granting!Init
<1>2. Members /\ [Next]_vars => Members' /\ [Granting!Next]_(DOMAIN zset)
  BY StepImplements
<1> QED
  BY <1>1, <1>2, PTL DEF Spec, ImplementsPermits, Granting!Spec

-----------------------------------------------------------------------------
(* Type correctness *)

\* What Redis keeps
RedisOK ==
  /\ DOMAIN zset \subseteq Leases /\ \A l \in DOMAIN zset : zset[l] \in Nat
  /\ setTtl \in 0..LeaseTtl
  /\ DOMAIN keys \subseteq Leases /\ \A l \in DOMAIN keys : keys[l] \in 1..LeaseTtl
  /\ calls \in 0..MaxCalls
  /\ cool \in [ttl : 0..CooldownSecs, by : Instances]

LEMMA GrantTyped ==
  ASSUME RedisOK, NEW i \in Instances, NEW l \in Leases, ScriptGrants(i, l)
  PROVE  RedisOK'
<1>1. Skew[i] \in Nat /\ LeaseTtl \in Nat \ {0} /\ MaxCalls \in Nat
  BY SkewAssumption, LimitAssumption
<1>2. DOMAIN zset' = Counted(i) \cup {l} /\ \A m \in DOMAIN zset' : zset'[m] \in Nat
  BY <1>1 DEF ScriptGrants, RedisOK, Counted
<1>3. Counted(i) \subseteq DOMAIN zset
  BY DEF Counted
<1>4. DOMAIN keys' = DOMAIN keys \cup {l} /\ \A m \in DOMAIN keys' : keys'[m] \in 1..LeaseTtl
  BY <1>1 DEF ScriptGrants, RedisOK
<1>5. calls' \in 0..MaxCalls /\ setTtl' \in 0..LeaseTtl /\ cool' = cool
  BY <1>1 DEF ScriptGrants, Spent, RedisOK
<1>. QED
  BY <1>2, <1>3, <1>4, <1>5 DEF RedisOK

LEMMA RefusalTyped ==
  ASSUME RedisOK, NEW i \in Instances, ScriptRefuses(i)
  PROVE  RedisOK'
<1>1. DOMAIN zset' = Counted(i) /\ \A m \in DOMAIN zset' : zset'[m] = zset[m]
  BY DEF ScriptRefuses, Purge, Restrict
<1>2. Counted(i) \subseteq DOMAIN zset
  BY DEF Counted
<1>3. cool' \in [ttl : 0..CooldownSecs, by : Instances]
  BY LimitAssumption DEF ScriptRefuses, RedisOK
<1>. QED
  BY <1>1, <1>2, <1>3 DEF ScriptRefuses, RedisOK

LEMMA ReleaseTyped ==
  ASSUME RedisOK, local \in [Instances -> Seq(Leases)], NEW i \in Instances, ReleaseOne(i)
  PROVE  RedisOK' /\ local' \in [Instances -> Seq(Leases)]
<1>1. CASE local[i] = <<>>
  BY <1>1 DEF ReleaseOne, RedisOK
<1>2. CASE local[i] # <<>>
  <2> DEFINE l == local[i][Len(local[i])]
  <2>1. SubSeq(local[i], 1, Len(local[i]) - 1) \in Seq(Leases)
    BY SubSeqProperties, LenProperties
  <2>2. local' \in [Instances -> Seq(Leases)]
    BY <1>2, <2>1 DEF ReleaseOne
  <2>3. UNCHANGED <<setTtl, calls, cool>>
    BY <1>2 DEF ReleaseOne
  <2>4. \/ UNCHANGED <<zset, keys>>
        \/ keys' = Restrict(keys, DOMAIN keys \ {l}) /\ zset' = Restrict(zset, DOMAIN zset \ {l})
    BY <1>2 DEF ReleaseOne, ReleaseScript
  <2>. QED
    BY <2>2, <2>3, <2>4 DEF Restrict, RedisOK
<1>. QED
  BY <1>1, <1>2

\* The histories and the requests
HistoryTyped == eroded \in SUBSET Instances /\ leaked \in BOOLEAN

LEMMA ErodesTyped ==
  ASSUME eroded \in SUBSET Instances, NEW S \in SUBSET Instances, Erodes(S)
  PROVE  eroded' \in SUBSET Instances
BY DEF Erodes

LEMMA LeaksTyped == ASSUME NEW b, Leaks(b) PROVE leaked' \in BOOLEAN
BY DEF Leaks

LEMMA TypingStep == TypeOK /\ [Next]_vars => TypeOK'
<1> SUFFICES ASSUME TypeOK, [Next]_vars PROVE TypeOK'
  OBVIOUS
<1> DEFINE Flight == {"idle", "leased", "open"}
<1>a. RedisOK /\ (RedisOK' => /\ DOMAIN zset' \subseteq Leases
                             /\ \A l \in DOMAIN zset' : zset'[l] \in Nat)
  BY DEF TypeOK, RedisOK
<1>b. \A r \in Requests : Home[r] \in Instances
  BY HomeAssumption
<1>c. Losers \in SUBSET Instances
  BY DEF Losers
<1>d. ASSUME RedisOK', local' \in [Instances -> Seq(Leases)],
             flight' \in [Requests -> Flight], withdrawn' \in 0..MaxWithdrawn,
             eroded' \in SUBSET Instances, leaked' \in BOOLEAN
      PROVE  TypeOK'
  BY <1>d DEF RedisOK, TypeOK
<1>e. ASSUME NEW r \in Requests, NEW f \in Flight, flight' = [flight EXCEPT ![r] = f]
      PROVE  flight' \in [Requests -> Flight]
  BY <1>e DEF TypeOK
<1>f. ASSUME NEW r \in Requests, WithoutRedis(r) PROVE flight' \in [Requests -> Flight]
  BY <1>f DEF TypeOK, WithoutRedis
<1>1. ASSUME NEW r \in Requests, Acquire(r) PROVE TypeOK'
  <2>1. PICK l \in Leases : /\ ScriptGrants(Home[r], l)
                            /\ local' = [local EXCEPT ![Home[r]] = Append(@, l)]
    BY <1>1 DEF Acquire
  <2>2. RedisOK'
    BY <1>a, <1>b, <2>1, GrantTyped
  <2>3. local' \in [Instances -> Seq(Leases)]
    BY <2>1, <1>b DEF TypeOK
  <2>4. eroded' \in SUBSET Instances
    BY <1>1, <1>c, ErodesTyped DEF Acquire, TypeOK
  <2>5. leaked' \in BOOLEAN
    BY <1>1, LeaksTyped DEF Acquire
  <2>6. flight' \in [Requests -> Flight] /\ withdrawn' = withdrawn
    BY <1>1, <1>e DEF Acquire
  <2>. QED
    BY <1>d, <2>2, <2>3, <2>4, <2>5, <2>6 DEF TypeOK
<1>2. ASSUME NEW r \in Requests, Rejected(r) PROVE TypeOK'
  <2>1. RedisOK'
    BY <1>2, <1>a, <1>b, RefusalTyped DEF Rejected
  <2>2. eroded' \in SUBSET Instances
    BY <1>2, <1>c, ErodesTyped DEF Rejected, TypeOK
  <2>3. leaked' \in BOOLEAN
    BY <1>2, LeaksTyped DEF Rejected
  <2>4. flight' \in [Requests -> Flight] /\ UNCHANGED <<local, withdrawn>>
    BY <1>2, <1>f DEF Rejected, TypeOK
  <2>. QED
    BY <1>d, <2>1, <2>2, <2>3, <2>4 DEF TypeOK
<1>3. ASSUME NEW r \in Requests, Unreachable(r) PROVE TypeOK'
  <2>1. RedisOK'
    BY <1>3, <1>a DEF Unreachable, RedisOK
  <2>2. eroded' \in SUBSET Instances
    BY <1>3, ErodesTyped DEF Unreachable, TypeOK
  <2>3. flight' \in [Requests -> Flight] /\ UNCHANGED <<local, withdrawn, leaked>>
    BY <1>3, <1>f DEF Unreachable
  <2>. QED
    BY <1>d, <2>1, <2>2, <2>3 DEF TypeOK
<1>4. ASSUME NEW r \in Requests, ReplyLost(r) PROVE TypeOK'
  <2>1. RedisOK'
    BY <1>4, <1>a, <1>b, RefusalTyped, GrantTyped DEF ReplyLost
  <2>2. eroded' \in SUBSET Instances
    BY <1>4, <1>c, ErodesTyped DEF ReplyLost, TypeOK
  <2>3. leaked' \in BOOLEAN
    BY <1>4, LeaksTyped DEF ReplyLost
  <2>4. flight' \in [Requests -> Flight] /\ UNCHANGED <<local, withdrawn>>
    BY <1>4, <1>f DEF ReplyLost
  <2>. QED
    BY <1>d, <2>1, <2>2, <2>3, <2>4 DEF TypeOK
<1>5. ASSUME NEW i \in Instances, ReleaseOne(i) PROVE leaked' \in BOOLEAN
  <2>1. leaked' = leaked \/ \E b : Leaks(b)
    BY <1>5 DEF ReleaseOne
  <2>. QED
    BY <2>1, LeaksTyped DEF TypeOK
<1>6. ASSUME NEW r \in Requests, Report(r) PROVE TypeOK'
  <2>1. RedisOK' /\ local' \in [Instances -> Seq(Leases)]
    BY <1>6, <1>a, <1>b, ReleaseTyped DEF Report, TypeOK
  <2>2. eroded' \in SUBSET Instances
    BY <1>6, <1>b, ErodesTyped DEF Report, TypeOK
  <2>3. flight' \in [Requests -> Flight] /\ withdrawn' = withdrawn
    BY <1>6, <1>e DEF Report
  <2>. QED
    BY <1>b, <1>d, <1>5, <1>6, <2>1, <2>2, <2>3 DEF Report, TypeOK
<1>7. ASSUME NEW r \in Requests, ReportWithdrawn(r) PROVE TypeOK'
  <2>1. RedisOK'
    BY <1>7, <1>a DEF ReportWithdrawn, RedisOK
  <2>2. eroded' \in SUBSET Instances
    BY <1>7, ErodesTyped DEF ReportWithdrawn, TypeOK
  <2>3. leaked' \in BOOLEAN
    BY <1>7, LeaksTyped DEF ReportWithdrawn
  <2>4. flight' \in [Requests -> Flight] /\ local' = local
    BY <1>7, <1>e DEF ReportWithdrawn
  <2>5. withdrawn' \in 0..MaxWithdrawn
    BY <1>7, FailOpenAssumption DEF ReportWithdrawn, TypeOK
  <2>. QED
    BY <1>d, <2>1, <2>2, <2>3, <2>4, <2>5 DEF TypeOK
<1>8. ASSUME NEW i \in Instances, Credit(i) PROVE TypeOK'
  <2>1. RedisOK' /\ local' \in [Instances -> Seq(Leases)]
    BY <1>8, <1>a, ReleaseTyped DEF Credit, TypeOK
  <2>2. eroded' \in SUBSET Instances
    BY <1>8, ErodesTyped DEF Credit, TypeOK
  <2>. QED
    BY <1>d, <1>5, <1>8, <2>1, <2>2 DEF Credit, TypeOK
<1>9. ASSUME NEW i \in Instances, Crash(i) PROVE TypeOK'
  <2>1. RedisOK'
    BY <1>9, <1>a DEF Crash, RedisOK
  <2>2. eroded' \in SUBSET Instances
    BY <1>9, ErodesTyped DEF Crash, TypeOK
  <2>3. leaked' \in BOOLEAN
    BY <1>9, LeaksTyped DEF Crash
  <2>4. flight' \in [Requests -> Flight]
    BY <1>9 DEF Crash, TypeOK
  <2>5. local' \in [Instances -> Seq(Leases)] /\ withdrawn' = withdrawn
    BY <1>9 DEF Crash, TypeOK
  <2>. QED
    BY <1>d, <2>1, <2>2, <2>3, <2>4, <2>5 DEF TypeOK
<1>10. CASE Tick
  <2>1. DOMAIN zset' \subseteq Leases /\ \A l \in DOMAIN zset' : zset'[l] \in Nat
    BY <1>10 DEF Tick, NoLeases, Earlier, TypeOK
  <2>2. DOMAIN keys' \subseteq Leases /\ \A l \in DOMAIN keys' : keys'[l] \in 1..LeaseTtl
    BY <1>10, LimitAssumption DEF Tick, TypeOK
  <2>3. cool' \in [ttl : 0..CooldownSecs, by : Instances]
    <3>1. cool.ttl \in 0..CooldownSecs /\ cool.by \in Instances
      BY DEF TypeOK
    <3>2. Earlier(cool.ttl) \in 0..CooldownSecs
      BY <3>1, LimitAssumption DEF Earlier
    <3>3. cool' = [cool EXCEPT !.ttl = Earlier(cool.ttl)]
      BY <1>10 DEF Tick
    <3>. QED
      BY <3>2, <3>3 DEF TypeOK
  <2>4. setTtl' \in 0..LeaseTtl
    BY <1>10, LimitAssumption DEF Tick, Earlier, TypeOK
  <2>5. eroded' \in SUBSET Instances
    BY <1>10, <1>c, ErodesTyped DEF Tick, TypeOK
  <2>6. leaked' \in BOOLEAN
    BY <1>10, LeaksTyped DEF Tick
  <2>. QED
    BY <1>10, <2>1, <2>2, <2>3, <2>4, <2>5, <2>6 DEF Tick, TypeOK
<1>11. CASE NextWindow
  BY <1>11, LimitAssumption DEF NextWindow, TypeOK
<1>12. CASE UNCHANGED vars
  BY <1>12 DEF vars, TypeOK
<1>. QED
  BY <1>1, <1>2, <1>3, <1>4, <1>6, <1>7, <1>8, <1>9, <1>10, <1>11, <1>12 DEF Next

\* For any limits and clocks: no window has more calls than it may, and no key
\* outlives its time to live.
THEOREM Typing == Spec => []TypeOK
<1>1. Init => TypeOK
  <2>1. Init => /\ DOMAIN zset \subseteq Leases /\ \A l \in DOMAIN zset : zset[l] \in Nat
                /\ DOMAIN keys \subseteq Leases /\ \A l \in DOMAIN keys : keys[l] \in 1..LeaseTtl
    BY DEF Init, NoLeases
  <2>2. Init => cool \in [ttl : 0..CooldownSecs, by : Instances]
    BY LimitAssumption DEF Init
  <2>3. Init => local \in [Instances -> Seq(Leases)]
    BY DEF Init
  <2>4. Init => eroded \in SUBSET Instances /\ leaked \in BOOLEAN
    BY DEF Init
  <2>5. Init => /\ setTtl \in 0..LeaseTtl /\ calls \in 0..MaxCalls
                /\ flight \in [Requests -> {"idle", "leased", "open"}]
                /\ withdrawn \in 0..MaxWithdrawn
    BY LimitAssumption, FailOpenAssumption DEF Init
  <2>. QED
    BY <2>1, <2>2, <2>3, <2>4, <2>5 DEF TypeOK
<1>. QED
  BY <1>1, TypingStep, PTL DEF Spec

-----------------------------------------------------------------------------
(* What the instances remember *)

\* No id is remembered twice, by one instance or by two.
IdsDistinct ==
  /\ \A i \in Instances : \A a, b \in 1..Len(local[i]) : local[i][a] = local[i][b] => a = b
  /\ \A i, j \in Instances : \A l \in Range(local[i]) : l \in Range(local[j]) => i = j

LEMMA RangeOf ==
  ASSUME NEW s \in Seq(Leases)
  PROVE  /\ Len(s) \in Nat /\ Range(s) \subseteq Leases
         /\ \A l : l \in Range(s) <=> \E k \in 1..Len(s) : l = s[k]
BY DEF Range

LEMMA Appended ==
  ASSUME NEW s \in Seq(Leases), NEW l \in Leases
  PROVE  /\ Len(Append(s, l)) = Len(s) + 1
         /\ \A k \in 1..Len(s) : Append(s, l)[k] = s[k]
         /\ Append(s, l)[Len(s) + 1] = l
         /\ Range(Append(s, l)) = Range(s) \cup {l}
<1>1. /\ Append(s, l) \in Seq(Leases) /\ Len(s) \in Nat
      /\ Len(Append(s, l)) = Len(s) + 1
      /\ \A k \in 1..Len(s) : Append(s, l)[k] = s[k]
      /\ Append(s, l)[Len(s) + 1] = l
  OBVIOUS
<1>2. \A m : m \in Range(Append(s, l)) <=> \E k \in 1..Len(s) + 1 : m = Append(s, l)[k]
  <2>1. \A m : m \in Range(Append(s, l)) <=>
               \E k \in 1..Len(Append(s, l)) : m = Append(s, l)[k]
    BY ONLY <1>1, RangeOf
  <2>. QED
    BY ONLY <1>1, <2>1
<1>3. \A m : m \in Range(s) <=> \E k \in 1..Len(s) : m = s[k]
  BY RangeOf
<1>4. \A k : k \in 1..Len(s) + 1 <=> k \in 1..Len(s) \/ k = Len(s) + 1
  BY <1>1
<1>5. \A m : m \in Range(Append(s, l)) <=> m \in Range(s) \cup {l}
  BY <1>1, <1>2, <1>3, <1>4
<1>. QED
  BY <1>1, <1>5

LEMMA Popped ==
  ASSUME NEW s \in Seq(Leases), s # <<>>,
         \A a, b \in 1..Len(s) : s[a] = s[b] => a = b,
         NEW p, p = SubSeq(s, 1, Len(s) - 1)
  PROVE  /\ p \in Seq(Leases) /\ Len(s) \in Nat \ {0} /\ Len(p) = Len(s) - 1
         /\ \A k \in 1..Len(p) : p[k] = s[k]
         /\ Range(p) = Range(s) \ {s[Len(s)]} /\ s[Len(s)] \in Range(s)
<1>1. Len(s) \in Nat \ {0}
  OBVIOUS
<1>2. \A k \in 1..Len(s) - 1 : s[k] \in Leases
  BY <1>1, ElementOfSeq
<1>3. /\ p \in Seq(Leases) /\ Len(p) = Len(s) - 1
      /\ \A k \in 1..Len(p) : p[k] = s[k]
  <2>1. PICK n \in Nat : n = Len(s) - 1
    BY <1>1
  <2>2. /\ SubSeq(s, 1, n) \in Seq(Leases)
        /\ Len(SubSeq(s, 1, n)) = IF 1 <= n THEN n - 1 + 1 ELSE 0
        /\ \A k \in 1..n - 1 + 1 : SubSeq(s, 1, n)[k] = s[1 + k - 1]
    BY <1>2, <2>1, SubSeqProperties
  <2>3. Len(SubSeq(s, 1, n)) = n /\ \A k \in 1..n : SubSeq(s, 1, n)[k] = s[k]
    BY <2>2
  <2>. QED
    BY <2>1, <2>2, <2>3
<1>4. \A m : m \in Range(p) <=> \E k \in 1..Len(s) - 1 : m = p[k]
  <2>1. \A m : m \in Range(p) <=> \E k \in 1..Len(p) : m = p[k]
    BY ONLY <1>3, RangeOf
  <2>. QED
    BY ONLY <1>3, <2>1
<1>5. \A m : m \in Range(s) <=> \E k \in 1..Len(s) : m = s[k]
  BY RangeOf
<1>6. \A k : k \in 1..Len(s) <=> k \in 1..Len(s) - 1 \/ k = Len(s)
  BY <1>1
<1>7. \A k \in 1..Len(s) - 1 : p[k] = s[k] /\ s[k] # s[Len(s)]
  BY <1>1, <1>3
<1>8. \A m : m \in Range(p) <=> m \in Range(s) \ {s[Len(s)]}
  BY <1>4, <1>5, <1>6, <1>7
<1>9. s[Len(s)] \in Range(s)
  BY <1>1, <1>5
<1>. QED
  BY <1>1, <1>3, <1>8, <1>9

\* An instance keeps a prefix of what it remembers, or is granted one more id.
Keeps(i) ==
  /\ Len(local'[i]) <= Len(local[i])
  /\ \A k \in 1..Len(local'[i]) : local'[i][k] = local[i][k]

LEMMA SameKeeps ==
  ASSUME TypeOK, NEW i \in Instances, local'[i] = local[i]
  PROVE  Keeps(i)
<1>1. local[i] \in Seq(Leases)
  BY DEF TypeOK
<1>2. Len(local[i]) \in Nat
  BY <1>1
<1>. QED
  BY <1>2 DEF Keeps

LEMMA KeepsRange ==
  ASSUME TypeOK, TypeOK', NEW i \in Instances, Keeps(i)
  PROVE  Range(local'[i]) \subseteq Range(local[i])
<1>1. local[i] \in Seq(Leases) /\ local'[i] \in Seq(Leases)
  BY DEF TypeOK
<1>2. ASSUME NEW m, m \in Range(local'[i]) PROVE m \in Range(local[i])
  <2>1. PICK k \in 1..Len(local'[i]) : m = local'[i][k]
    BY <1>1, <1>2, RangeOf
  <2>2. k \in 1..Len(local[i]) /\ m = local[i][k]
    BY <1>1, <2>1, RangeOf DEF Keeps
  <2>. QED
    BY <1>1, <2>2, RangeOf
<1>. QED
  BY <1>2

\* Where an acquire script's grant is remembered
Granted(i, l) ==
  /\ l \in Fresh /\ ScriptGrants(i, l)
  /\ local' = [local EXCEPT ![i] = Append(@, l)]

LEMMA ReleaseKeeps ==
  ASSUME TypeOK, IdsDistinct, NEW i \in Instances, ReleaseOne(i)
  PROVE  /\ \A j \in Instances : Keeps(j)
         /\ \A j \in Instances \ {i} : local'[j] = local[j]
<1>1. \A j \in Instances : local[j] \in Seq(Leases) /\ Len(local[j]) \in Nat
  BY DEF TypeOK
<1>2. CASE local[i] = <<>>
  BY <1>1, <1>2 DEF ReleaseOne, Keeps
<1>3. CASE local[i] # <<>>
  <2>1. local' = [local EXCEPT ![i] = SubSeq(local[i], 1, Len(local[i]) - 1)]
    BY <1>3 DEF ReleaseOne
  <2>2. /\ local'[i] = SubSeq(local[i], 1, Len(local[i]) - 1)
        /\ \A j \in Instances \ {i} : local'[j] = local[j]
    BY <2>1 DEF TypeOK
  <2>3. Keeps(i)
    BY <1>1, <1>3, <2>2, Popped DEF Keeps, IdsDistinct
  <2>. QED
    BY <1>1, <2>2, <2>3 DEF Keeps
<1>. QED
  BY <1>2, <1>3

\* Every step of the module either remembers a grant or leaves every instance a
\* prefix of what it remembered.
LEMMA StepKeeps ==
  ASSUME TypeOK, IdsDistinct, [Next]_vars
  PROVE  \/ \E r \in Requests, l \in Leases : Acquire(r) /\ Granted(Home[r], l)
         \/ \A i \in Instances : Keeps(i)
<1>1. ASSUME NEW r \in Requests, Acquire(r)
      PROVE  \E l \in Leases : Acquire(r) /\ Granted(Home[r], l)
  BY <1>1 DEF Acquire, Granted, NextLease
<1>2. ASSUME NEW i \in Instances, ReleaseOne(i) PROVE \A j \in Instances : Keeps(j)
  BY <1>2, ReleaseKeeps
<1>3. ASSUME local' = local PROVE \A j \in Instances : Keeps(j)
  BY <1>3, SameKeeps
<1>4. ASSUME NEW i \in Instances, Crash(i) PROVE \A j \in Instances : Keeps(j)
  BY <1>4 DEF Crash, Keeps, TypeOK
<1>5. \A r \in Requests : Home[r] \in Instances
  BY HomeAssumption
<1>. QED
  BY <1>1, <1>2, <1>3, <1>4, <1>5
     DEF Next, vars, Rejected, Unreachable, ReplyLost, Report, ReportWithdrawn, Credit, Tick,
         NextWindow

LEMMA FreshIds ==
  ASSUME NEW l \in Fresh, NEW i \in Instances
  PROVE  l \in Leases /\ l \notin DOMAIN zset /\ l \notin Range(local[i])
BY DEF Fresh

LEMMA IdsStep == TypeOK /\ TypeOK' /\ IdsDistinct /\ [Next]_vars => IdsDistinct'
<1> SUFFICES ASSUME TypeOK, TypeOK', IdsDistinct, [Next]_vars PROVE IdsDistinct'
  OBVIOUS
<1>1. ASSUME \A i \in Instances : Keeps(i) PROVE IdsDistinct'
  <2>1. \A i \in Instances : Range(local'[i]) \subseteq Range(local[i])
    BY <1>1, KeepsRange
  <2>2. ASSUME NEW i \in Instances, NEW a \in 1..Len(local'[i]), NEW b \in 1..Len(local'[i]),
               local'[i][a] = local'[i][b]
        PROVE  a = b
    <3>1. Len(local[i]) \in Nat /\ Len(local'[i]) \in Nat
      BY RangeOf DEF TypeOK
    <3>2. a \in 1..Len(local[i]) /\ b \in 1..Len(local[i]) /\ local[i][a] = local[i][b]
      BY <1>1, <2>2, <3>1 DEF Keeps
    <3>. QED
      BY <3>2 DEF IdsDistinct
  <2>. QED
    BY <2>1, <2>2 DEF IdsDistinct
<1>2. ASSUME NEW h \in Instances, NEW l \in Leases, Granted(h, l) PROVE IdsDistinct'
  <2>1. local[h] \in Seq(Leases) /\ Len(local[h]) \in Nat
    BY RangeOf DEF TypeOK
  <2>2. /\ local'[h] = Append(local[h], l)
        /\ \A i \in Instances \ {h} : local'[i] = local[i]
    BY <1>2 DEF Granted, TypeOK
  <2>3. \A i \in Instances : l \notin Range(local[i])
    BY <1>2, FreshIds DEF Granted
  <2>4. Range(local'[h]) = Range(local[h]) \cup {l}
    BY <2>1, <2>2, Appended
  <2>5. ASSUME NEW a \in 1..Len(local[h]) + 1, NEW b \in 1..Len(local[h]) + 1,
               local'[h][a] = local'[h][b]
        PROVE  a = b
    <3>1. \A k \in 1..Len(local[h]) : local'[h][k] = local[h][k] /\ local[h][k] # l
      BY <2>1, <2>2, <2>3, Appended, RangeOf
    <3>2. local'[h][Len(local[h]) + 1] = l
      BY <2>1, <2>2, Appended
    <3>. QED
      BY <2>1, <2>5, <3>1, <3>2 DEF IdsDistinct
  <2>6. Len(local'[h]) = Len(local[h]) + 1
    BY <2>1, <2>2, Appended
  <2>7. ASSUME NEW i \in Instances, NEW j \in Instances, NEW m \in Range(local'[i]),
               m \in Range(local'[j])
        PROVE  i = j
    <3>1. \A k \in Instances : m \in Range(local'[k]) => m \in Range(local[k]) \/ (k = h /\ m = l)
      BY <2>2, <2>4
    <3>2. m = l => i = h /\ j = h
      BY <2>3, <2>7, <3>1
    <3>3. m # l => m \in Range(local[i]) /\ m \in Range(local[j])
      BY <2>7, <3>1
    <3>. QED
      BY <3>2, <3>3 DEF IdsDistinct
  <2>8. ASSUME NEW i \in Instances
        PROVE  \A a, b \in 1..Len(local'[i]) : local'[i][a] = local'[i][b] => a = b
    BY <2>2, <2>5, <2>6 DEF IdsDistinct
  <2>. QED
    BY <2>7, <2>8 DEF IdsDistinct
<1>3. \A r \in Requests : Home[r] \in Instances
  BY HomeAssumption
<1>. QED
  BY <1>1, <1>2, <1>3, StepKeeps

LEMMA IdsInit == Init => IdsDistinct
BY DEF Init, IdsDistinct, Range

-----------------------------------------------------------------------------
(* The ids an instance remembers lapse in their order *)

\* What a step does to the members in R, when it does not grant them: a member only
\* goes, and not before one with a lower score.
Fades(R) ==
  \A x \in R : x \in DOMAIN zset' =>
    /\ x \in DOMAIN zset /\ zset'[x] <= zset[x]
    /\ \A y \in R : y \in DOMAIN zset /\ zset[x] <= zset[y] =>
                     y \in DOMAIN zset' /\ zset'[x] <= zset'[y]

\* The newer of two ids has at least the older one's score: an instance's scores
\* come from its own clock.
Order(i) ==
  /\ \A a, b \in 1..Len(local[i]) :
       a <= b /\ local[i][a] \in DOMAIN zset =>
         local[i][b] \in DOMAIN zset /\ zset[local[i][a]] <= zset[local[i][b]]
  /\ \A x \in Range(local[i]) : x \in DOMAIN zset => zset[x] <= LeaseTtl + Skew[i]
Ordered == \A i \in Instances : Order(i)

LEMMA OrderKept ==
  ASSUME TypeOK, TypeOK', NEW i \in Instances, Keeps(i), Fades(Range(local'[i])), Order(i)
  PROVE  Order(i)'
<1>1. /\ local[i] \in Seq(Leases) /\ local'[i] \in Seq(Leases)
      /\ Len(local[i]) \in Nat /\ Len(local'[i]) \in Nat
  BY RangeOf DEF TypeOK
<1>2. Range(local'[i]) \subseteq Range(local[i])
  BY KeepsRange
<1>3. \A k \in 1..Len(local'[i]) :
        /\ k \in 1..Len(local[i]) /\ local'[i][k] = local[i][k]
        /\ local'[i][k] \in Range(local'[i])
  BY <1>1, RangeOf DEF Keeps
<1>4. ASSUME NEW a \in 1..Len(local'[i]), NEW b \in 1..Len(local'[i]), a <= b,
             local'[i][a] \in DOMAIN zset'
      PROVE  local'[i][b] \in DOMAIN zset' /\ zset'[local'[i][a]] <= zset'[local'[i][b]]
  <2>1. local'[i][a] \in DOMAIN zset
    BY <1>3, <1>4 DEF Fades
  <2>2. local'[i][b] \in DOMAIN zset /\ zset[local'[i][a]] <= zset[local'[i][b]]
    BY <1>3, <1>4, <2>1 DEF Order
  <2>. QED
    BY <1>3, <1>4, <2>2 DEF Fades
<1>5. ASSUME NEW x \in Range(local'[i]), x \in DOMAIN zset'
      PROVE  zset'[x] <= LeaseTtl + Skew[i]
  <2>1. x \in DOMAIN zset /\ zset'[x] <= zset[x] /\ zset[x] <= LeaseTtl + Skew[i]
    BY <1>2, <1>5 DEF Fades, Order
  <2>2. zset[x] \in Nat /\ zset'[x] \in Nat /\ LeaseTtl \in Nat /\ Skew[i] \in Nat
    BY <1>5, <2>1, LimitAssumption, SkewAssumption DEF TypeOK
  <2>. QED
    BY <2>1, <2>2
<1>. QED
  BY <1>4, <1>5 DEF Order

LEMMA PurgeFades == ASSUME NEW i \in Instances, Purge(i), TypeOK, NEW R PROVE Fades(R)
<1>1. DOMAIN zset' = Counted(i) /\ \A m \in Counted(i) : zset'[m] = zset[m]
  BY DEF Purge, Restrict
<1>2. \A m : m \in Counted(i) <=> m \in DOMAIN zset /\ zset[m] > Skew[i]
  BY DEF Counted
<1>3. Skew[i] \in Nat /\ \A m \in DOMAIN zset : zset[m] \in Nat
  BY SkewAssumption DEF TypeOK
<1>. QED
  BY <1>1, <1>2, <1>3 DEF Fades

\* What a grant leaves of the members it does not add
LEMMA GrantFades ==
  ASSUME TypeOK, NEW i \in Instances, NEW l \in Fresh, ScriptGrants(i, l)
  PROVE  /\ \A j \in Instances : Fades(Range(local[j]))
         /\ DOMAIN zset' = Counted(i) \cup {l} /\ zset'[l] = LeaseTtl + Skew[i]
         /\ \A m \in Counted(i) : zset'[m] = zset[m] /\ m # l
<1>1. \A m : m \in Counted(i) <=> m \in DOMAIN zset /\ zset[m] > Skew[i]
  BY DEF Counted
<1>2. l \notin DOMAIN zset /\ \A j \in Instances : l \notin Range(local[j])
  BY FreshIds DEF Fresh
<1>3. /\ DOMAIN zset' = Counted(i) \cup {l} /\ zset'[l] = LeaseTtl + Skew[i]
      /\ \A m \in Counted(i) : zset'[m] = zset[m] /\ m # l
  BY <1>1, <1>2 DEF ScriptGrants
<1>4. Skew[i] \in Nat /\ \A m \in DOMAIN zset : zset[m] \in Nat
  BY SkewAssumption DEF TypeOK
<1>5. ASSUME NEW j \in Instances PROVE Fades(Range(local[j]))
  BY <1>1, <1>2, <1>3, <1>4 DEF Fades
<1>. QED
  BY <1>3, <1>5

LEMMA TickFades == ASSUME Tick, TypeOK, NEW R PROVE Fades(R)
<1>1. CASE setTtl <= 1
  BY <1>1 DEF Tick, NoLeases, Fades
<1>2. CASE ~(setTtl <= 1)
  <2>1. DOMAIN zset' = DOMAIN zset /\ \A m \in DOMAIN zset : zset'[m] = Earlier(zset[m])
    BY <1>2 DEF Tick
  <2>2. \A m \in DOMAIN zset : zset[m] \in Nat
    BY DEF TypeOK
  <2>. QED
    BY <2>1, <2>2 DEF Earlier, Fades
<1>. QED
  BY <1>1, <1>2

\* release_one takes the newest id out of both places.
LEMMA ReleaseFades ==
  ASSUME TypeOK, TypeOK', IdsDistinct, NEW i \in Instances, ReleaseOne(i)
  PROVE  /\ \A j \in Instances : Fades(Range(local'[j]))
         /\ \A j \in Instances \ {i} : Backing(j)' = Backing(j)
         /\ \E l : Backing(i)' = Backing(i) \ {l}
<1>0. \A m \in DOMAIN zset : zset[m] \in Nat
  BY DEF TypeOK
<1>1. CASE local[i] = <<>>
  <2>1. UNCHANGED <<zset, local>>
    BY <1>1 DEF ReleaseOne
  <2>2. \A j \in Instances : Backing(j)' = Backing(j)
    BY <2>1 DEF Backing
  <2>3. Backing(i) = {}
    BY <1>1 DEF Backing, Range
  <2>. QED
    BY <1>0, <2>1, <2>2, <2>3 DEF Fades
<1>2. CASE local[i] # <<>>
  <2> DEFINE l == local[i][Len(local[i])]
  <2>1. local[i] \in Seq(Leases)
    BY DEF TypeOK
  <2>2. /\ local'[i] = SubSeq(local[i], 1, Len(local[i]) - 1)
        /\ \A j \in Instances \ {i} : local'[j] = local[j]
    BY <1>2 DEF ReleaseOne, TypeOK
  <2>3. Range(local'[i]) = Range(local[i]) \ {l} /\ l \in Range(local[i])
    BY <1>2, <2>1, <2>2, Popped DEF IdsDistinct
  <2>4. \A j \in Instances : l \notin Range(local'[j])
    BY <2>2, <2>3 DEF IdsDistinct
  <2>5. zset' = zset \/ zset' = Restrict(zset, DOMAIN zset \ {l})
    BY <1>2 DEF ReleaseOne, ReleaseScript
  <2>6. /\ \A x \in DOMAIN zset' : x \in DOMAIN zset /\ zset'[x] = zset[x]
        /\ \A x \in DOMAIN zset : x \in DOMAIN zset' \/ x = l
    BY <2>5 DEF Restrict
  <2>7. ASSUME NEW j \in Instances PROVE Fades(Range(local'[j]))
    BY <1>0, <2>4, <2>6 DEF Fades
  <2>8. ASSUME NEW j \in Instances \ {i} PROVE Backing(j)' = Backing(j)
    BY <2>2, <2>4, <2>6 DEF Backing
  <2>9. Backing(i)' = Backing(i) \ {l}
    BY <2>3, <2>6 DEF Backing
  <2>. QED
    BY <2>7, <2>8, <2>9
<1>. QED
  BY <1>1, <1>2

LEMMA OrderStep == TypeOK /\ TypeOK' /\ IdsDistinct /\ Ordered /\ [Next]_vars => Ordered'
<1> SUFFICES ASSUME TypeOK, TypeOK', IdsDistinct, Ordered, [Next]_vars PROVE Ordered'
  OBVIOUS
<1>0. \A r \in Requests : Home[r] \in Instances
  BY HomeAssumption
<1>1. ASSUME \A i \in Instances : Keeps(i) /\ Fades(Range(local'[i])) PROVE Ordered'
  BY <1>1, OrderKept DEF Ordered
<1>2. ASSUME local' = local, \A i \in Instances : Fades(Range(local[i])) PROVE Ordered'
  BY <1>1, <1>2, SameKeeps
<1>3. ASSUME NEW r \in Requests, Acquire(r) PROVE Ordered'
  <2> DEFINE h == Home[r]
  <2>1. PICK l \in Leases : Granted(h, l)
    BY <1>3 DEF Acquire, Granted, NextLease
  <2>2. h \in Instances /\ l \in Fresh /\ ScriptGrants(h, l)
    BY <1>0, <2>1 DEF Granted
  <2> HIDE DEF h
  <2>3. /\ local'[h] = Append(local[h], l)
        /\ \A i \in Instances \ {h} : local'[i] = local[i]
    BY <2>1, <2>2 DEF Granted, TypeOK
  <2>4. /\ \A i \in Instances : Fades(Range(local[i]))
        /\ DOMAIN zset' = Counted(h) \cup {l} /\ zset'[l] = LeaseTtl + Skew[h]
        /\ \A m \in Counted(h) : zset'[m] = zset[m] /\ m # l
    BY <2>2, GrantFades
  <2>5. ASSUME NEW i \in Instances \ {h} PROVE Order(i)'
    <3>1. Keeps(i)
      BY <2>3, SameKeeps
    <3>. QED
      BY <2>3, <2>4, <3>1, OrderKept DEF Ordered
  <2>6. /\ local[h] \in Seq(Leases) /\ Len(local[h]) \in Nat
        /\ Len(local'[h]) = Len(local[h]) + 1
        /\ \A k \in 1..Len(local[h]) : local'[h][k] = local[h][k] /\ local[h][k] \in Range(local[h])
        /\ local'[h][Len(local[h]) + 1] = l
        /\ Range(local'[h]) = Range(local[h]) \cup {l}
    BY <2>2, <2>3, Appended, RangeOf DEF TypeOK
  <2>7. LeaseTtl + Skew[h] \in Nat
    BY <2>2, LimitAssumption, SkewAssumption
  <2>8. ASSUME NEW x \in Range(local[h]), x \in DOMAIN zset'
        PROVE  x \in DOMAIN zset /\ zset'[x] = zset[x] /\ zset[x] <= LeaseTtl + Skew[h]
    <3>1. x \in DOMAIN zset
      BY <2>2, <2>4, <2>8 DEF Fades
    <3>2. x \in Counted(h)
      BY <2>2, <2>4, <2>8, <3>1, FreshIds
    <3>. QED
      BY <2>2, <2>4, <3>1, <3>2 DEF Ordered, Order
  <2>9. ASSUME NEW x \in Range(local'[h]), x \in DOMAIN zset'
        PROVE  zset'[x] <= LeaseTtl + Skew[h]
    BY <2>4, <2>6, <2>7, <2>8, <2>9
  <2>10. ASSUME NEW a \in 1..Len(local'[h]), NEW b \in 1..Len(local'[h]), a <= b,
                local'[h][a] \in DOMAIN zset'
         PROVE  local'[h][b] \in DOMAIN zset' /\ zset'[local'[h][a]] <= zset'[local'[h][b]]
    <3>1. CASE b = Len(local[h]) + 1
      <4>1. a \in 1..Len(local[h]) \/ a = b
        BY <2>6, <2>10, <3>1
      <4>2. local'[h][a] \in Range(local'[h])
        BY <2>6, <3>1, <4>1
      <4>. QED
        BY <2>4, <2>6, <2>9, <2>10, <3>1, <4>2
    <3>2. CASE b # Len(local[h]) + 1
      <4>1. a \in 1..Len(local[h]) /\ b \in 1..Len(local[h])
        BY <2>6, <2>10, <3>2
      <4>2. local[h][a] \in DOMAIN zset
        BY <2>6, <2>8, <2>10, <4>1
      <4>3. local[h][b] \in DOMAIN zset /\ zset[local[h][a]] <= zset[local[h][b]]
        BY <2>2, <2>10, <4>1, <4>2 DEF Ordered, Order
      <4>. QED
        BY <2>2, <2>4, <2>6, <2>10, <4>1, <4>3 DEF Fades
    <3>. QED
      BY <3>1, <3>2
  <2>11. Order(h)'
    BY <2>9, <2>10 DEF Order
  <2>. QED
    BY <2>5, <2>11 DEF Ordered
<1>4. ASSUME NEW r \in Requests, Rejected(r) PROVE Ordered'
  BY <1>0, <1>2, <1>4, PurgeFades DEF Rejected, ScriptRefuses
<1>5. ASSUME NEW r \in Requests, ReplyLost(r) PROVE Ordered'
  <2>1. local' = local
    BY <1>5 DEF ReplyLost
  <2>2. CASE ScriptRefuses(Home[r])
    BY <1>0, <1>2, <2>1, <2>2, PurgeFades DEF ScriptRefuses
  <2>3. CASE \E l \in Leases : l \in Fresh /\ ScriptGrants(Home[r], l)
    BY <1>0, <1>2, <2>1, <2>3, GrantFades
  <2>. QED
    BY <1>5, <2>2, <2>3 DEF ReplyLost, NextLease
<1>6. ASSUME NEW i \in Instances, ReleaseOne(i) PROVE Ordered'
  BY <1>1, <1>6, ReleaseKeeps, ReleaseFades
<1>7. CASE Tick
  BY <1>2, <1>7, TickFades DEF Tick
<1>8. ASSUME zset' = zset, NEW R PROVE Fades(R)
  BY <1>8 DEF Fades, TypeOK
<1>9. ASSUME NEW r \in Requests, Unreachable(r) \/ ReportWithdrawn(r) PROVE Ordered'
  BY <1>2, <1>8, <1>9 DEF Unreachable, ReportWithdrawn
<1>10. ASSUME NEW i \in Instances, Crash(i) PROVE Ordered'
  BY <1>1, <1>8, <1>10 DEF Crash, Keeps, TypeOK
<1>11. CASE NextWindow \/ UNCHANGED vars
  BY <1>2, <1>8, <1>11 DEF NextWindow, vars
<1>. QED
  BY <1>0, <1>3, <1>4, <1>5, <1>6, <1>7, <1>9, <1>10, <1>11 DEF Next, Report, Credit

-----------------------------------------------------------------------------
(* How many are in flight and how many are counted *)

\* What a step does to the requests in flight
LEMMA FlightStarts ==
  ASSUME TypeOK, NEW r \in Requests, flight' = [flight EXCEPT ![r] = "leased"]
  PROVE  /\ InFlight(Home[r])' = InFlight(Home[r]) \cup {r}
         /\ \A i \in Instances : i # Home[r] => InFlight(i)' = InFlight(i)
         /\ Leased' \subseteq Leased \cup {r}
BY DEF TypeOK, InFlight, Leased

LEMMA FlightEnds ==
  ASSUME TypeOK, NEW r \in Requests, NEW f \in {"idle", "open"},
         flight' = [flight EXCEPT ![r] = f]
  PROVE  /\ \A i \in Instances :
              InFlight(i)' = IF i = Home[r] /\ flight[r] = "leased"
                             THEN InFlight(i) \ {r} ELSE InFlight(i)
         /\ flight[r] = "leased" => r \in InFlight(Home[r])
         /\ Leased' \subseteq Leased
BY DEF TypeOK, InFlight, Leased

LEMMA SameFlight ==
  ASSUME flight' = flight
  PROVE  Leased' = Leased /\ \A i \in Instances : InFlight(i)' = InFlight(i)
BY DEF InFlight, Leased

LEMMA CardsFinite ==
  ASSUME TypeOK, IsFiniteSet(Leased), NEW i \in Instances
  PROVE  /\ IsFiniteSet(InFlight(i)) /\ IsFiniteSet(Backing(i)) /\ IsFiniteSet(DOMAIN zset)
         /\ Cardinality(InFlight(i)) \in Nat /\ Cardinality(Backing(i)) \in Nat
<1>1. InFlight(i) \subseteq Leased /\ Backing(i) \subseteq DOMAIN zset /\ DOMAIN zset \subseteq Leases
  BY DEF InFlight, Leased, Backing, TypeOK
<1>. QED
  BY <1>1, FS_Subset, FS_CardinalityType, LeasesAssumption

LEMMA LeasedStep == TypeOK /\ IsFiniteSet(Leased) /\ [Next]_vars => IsFiniteSet(Leased')
<1> SUFFICES ASSUME TypeOK, IsFiniteSet(Leased), [Next]_vars PROVE IsFiniteSet(Leased')
  OBVIOUS
<1>1. ASSUME NEW r, Leased' \subseteq Leased \cup {r} PROVE IsFiniteSet(Leased')
  BY <1>1, FS_AddElement, FS_Subset
<1>2. ASSUME NEW r \in Requests, NEW f \in {"idle", "leased", "open"},
             flight' = [flight EXCEPT ![r] = f]
      PROVE  IsFiniteSet(Leased')
  <2>1. Leased' \subseteq Leased \cup {r}
    BY <1>2, FlightStarts, FlightEnds
  <2>. QED
    BY <1>1, <2>1
<1>3. ASSUME flight' = flight PROVE IsFiniteSet(Leased')
  BY <1>1, <1>3, SameFlight
<1>4. ASSUME NEW i \in Instances, Crash(i) PROVE IsFiniteSet(Leased')
  <2>1. Leased' \subseteq Leased
    BY <1>4 DEF Crash, Leased
  <2>. QED
    BY <2>1, FS_Subset
<1>. QED
  BY <1>2, <1>3, <1>4
     DEF Next, vars, Acquire, Rejected, Unreachable, WithoutRedis, ReplyLost, Report,
         ReportWithdrawn, Credit, Tick, NextWindow

\* Both histories
LEMMA NotEroded ==
  ASSUME NEW S, Erodes(S), NEW i \in Instances \ eroded'
  PROVE  (i \notin eroded /\ i \notin S) \/ InFlight(i)' = {}
BY DEF Erodes, InFlight

LEMMA NotLeaked ==
  ASSUME NEW b, Leaks(b), ~leaked'
  PROVE  (~leaked /\ ~b) \/ DOMAIN zset' = {}
BY DEF Leaks

BackedAt(i) == Cardinality(InFlight(i)) <= Cardinality(Backing(i))
CoveredAt(i) == Cardinality(Backing(i)) <= Cardinality(InFlight(i))

LEMMA NoneInFlight ==
  ASSUME TypeOK', IsFiniteSet(Leased'), NEW i \in Instances, InFlight(i)' = {}
  PROVE  BackedAt(i)'
<1>1. Cardinality(Backing(i)') \in Nat
  <2>1. Backing(i)' \subseteq Leases
    BY DEF Backing, TypeOK
  <2>. QED
    BY <2>1, FS_Subset, FS_CardinalityType, LeasesAssumption
<1>. QED
  BY <1>1, FS_EmptySet DEF BackedAt

LEMMA BackedStill ==
  ASSUME TypeOK, TypeOK', IsFiniteSet(Leased), IsFiniteSet(Leased'), NEW i \in Instances,
         BackedAt(i), InFlight(i)' \subseteq InFlight(i), Backing(i) \subseteq Backing(i)'
  PROVE  BackedAt(i)'
<1>1. IsFiniteSet(Backing(i)')
  <2>1. Backing(i)' \subseteq Leases
    BY DEF Backing, TypeOK
  <2>. QED
    BY <2>1, FS_Subset, LeasesAssumption
<1>2. /\ Cardinality(InFlight(i)') <= Cardinality(InFlight(i))
      /\ Cardinality(Backing(i)) <= Cardinality(Backing(i)')
      /\ IsFiniteSet(InFlight(i)')
  BY <1>1, CardsFinite, FS_Subset
<1>3. /\ Cardinality(InFlight(i)') \in Nat /\ Cardinality(InFlight(i)) \in Nat
      /\ Cardinality(Backing(i)) \in Nat /\ Cardinality(Backing(i)') \in Nat
  BY <1>1, <1>2, CardsFinite, FS_CardinalityType
<1>. QED
  BY <1>2, <1>3 DEF BackedAt

\* A grant adds one to each side, a report takes at most one from each.
LEMMA BackedGrows ==
  ASSUME TypeOK, TypeOK', IsFiniteSet(Leased), NEW i \in Instances, BackedAt(i),
         NEW r, InFlight(i)' = InFlight(i) \cup {r},
         NEW l, l \notin Backing(i), Backing(i) \cup {l} \subseteq Backing(i)'
  PROVE  BackedAt(i)'
<1>1. IsFiniteSet(Backing(i)')
  <2>1. Backing(i)' \subseteq Leases
    BY DEF Backing, TypeOK
  <2>. QED
    BY <2>1, FS_Subset, LeasesAssumption
<1>2. /\ Cardinality(InFlight(i)') <= Cardinality(InFlight(i)) + 1
      /\ Cardinality(InFlight(i)') \in Nat
  <2>1. /\ IsFiniteSet(InFlight(i) \cup {r})
        /\ Cardinality(InFlight(i) \cup {r}) =
             IF r \in InFlight(i) THEN Cardinality(InFlight(i)) ELSE Cardinality(InFlight(i)) + 1
    BY CardsFinite, FS_AddElement
  <2>. QED
    BY <2>1, CardsFinite, FS_CardinalityType
<1>3. Cardinality(Backing(i)) + 1 <= Cardinality(Backing(i)')
  <2>1. Cardinality(Backing(i) \cup {l}) = Cardinality(Backing(i)) + 1
    BY CardsFinite, FS_AddElement
  <2>2. Cardinality(Backing(i) \cup {l}) <= Cardinality(Backing(i)')
    BY <1>1, FS_Subset
  <2>. QED
    BY <2>1, <2>2
<1>4. /\ Cardinality(InFlight(i)) \in Nat /\ Cardinality(Backing(i)) \in Nat
      /\ Cardinality(Backing(i)') \in Nat
  BY <1>1, CardsFinite, FS_CardinalityType
<1>. QED
  BY <1>2, <1>3, <1>4 DEF BackedAt

LEMMA BackedReports ==
  ASSUME TypeOK, IsFiniteSet(Leased), NEW i \in Instances, BackedAt(i),
         NEW r \in InFlight(i), InFlight(i)' = InFlight(i) \ {r},
         NEW l, Backing(i)' = Backing(i) \ {l}
  PROVE  BackedAt(i)'
<1>1. Cardinality(InFlight(i) \ {r}) = Cardinality(InFlight(i)) - 1
  BY CardsFinite, FS_RemoveElement
<1>2. Cardinality(Backing(i) \ {l}) =
        IF l \in Backing(i) THEN Cardinality(Backing(i)) - 1 ELSE Cardinality(Backing(i))
  BY CardsFinite, FS_RemoveElement
<1>3. Cardinality(InFlight(i)) \in Nat /\ Cardinality(Backing(i)) \in Nat
  BY CardsFinite
<1>. QED
  BY <1>1, <1>2, <1>3 DEF BackedAt

LEMMA BackedStep ==
  TypeOK /\ TypeOK' /\ IdsDistinct /\ IsFiniteSet(Leased) /\ InFlightBacked /\ [Next]_vars
    => InFlightBacked'
<1> SUFFICES ASSUME TypeOK, TypeOK', IdsDistinct, IsFiniteSet(Leased), InFlightBacked,
                    [Next]_vars, NEW i \in Instances \ eroded'
             PROVE  BackedAt(i)'
  BY DEF InFlightBacked, BackedAt
<1>a. IsFiniteSet(Leased')
  BY LeasedStep
<1>b. i \notin eroded => BackedAt(i)
  BY DEF InFlightBacked, BackedAt
<1>c. \A r \in Requests : Home[r] \in Instances
  BY HomeAssumption
<1>d. ASSUME NEW S, Erodes(S), InFlight(i)' \subseteq InFlight(i),
             i \in S \/ Backing(i) \subseteq Backing(i)'
      PROVE  BackedAt(i)'
  BY <1>a, <1>b, <1>d, NotEroded, NoneInFlight, BackedStill
<1>e. ASSUME local' = local PROVE i \in Losers \/ Backing(i) \subseteq Backing(i)'
  BY <1>e DEF Losers, Backing
<1>1. ASSUME NEW r \in Requests, Acquire(r) PROVE BackedAt(i)'
  <2>1. PICK l \in Leases : Granted(Home[r], l)
    BY <1>1 DEF Acquire, Granted, NextLease
  <2>2. /\ l \in Fresh /\ ScriptGrants(Home[r], l)
        /\ local' = [local EXCEPT ![Home[r]] = Append(@, l)]
        /\ flight' = [flight EXCEPT ![r] = "leased"] /\ Erodes(Losers)
    BY <1>1, <2>1 DEF Granted, Acquire
  <2>3. l \in DOMAIN zset' /\ l \notin Backing(i)
    BY <2>2, FreshIds DEF ScriptGrants, Backing
  <2>4. Range(local[i]) \subseteq Range(local'[i])
    BY <2>2, Appended DEF TypeOK
  <2>5. i \in Losers \/ Backing(i) \subseteq Backing(i)'
    BY <2>4 DEF Losers, Backing
  <2>6. CASE i # Home[r]
    BY <1>d, <2>2, <2>5, <2>6, FlightStarts
  <2>7. CASE i = Home[r]
    <3>1. InFlight(i)' = InFlight(i) \cup {r}
      BY <2>2, <2>7, FlightStarts
    <3>2. l \in Range(local'[i])
      BY <2>2, <2>7, Appended DEF TypeOK
    <3>3. l \in Backing(i)'
      BY <2>3, <3>2 DEF Backing
    <3>4. i \notin eroded /\ i \notin Losers
      BY <2>2, <3>1, NotEroded
    <3>. QED
      BY <1>b, <2>3, <2>5, <3>1, <3>3, <3>4, BackedGrows
  <2>. QED
    BY <2>6, <2>7
<1>2. ASSUME NEW r \in Requests, WithoutRedis(r), flight[r] = "idle"
      PROVE  InFlight(i)' = InFlight(i)
  <2>1. PICK f \in {"idle", "open"} : flight' = [flight EXCEPT ![r] = f]
    BY <1>2 DEF WithoutRedis
  <2>. QED
    BY <1>2, <2>1, FlightEnds
<1>3. ASSUME NEW r \in Requests, Rejected(r) \/ ReplyLost(r) PROVE BackedAt(i)'
  <2>1. InFlight(i)' = InFlight(i)
    BY <1>2, <1>3, SameFlight DEF Rejected, ReplyLost
  <2>2. local' = local /\ Erodes(Losers)
    BY <1>3 DEF Rejected, ReplyLost
  <2>. QED
    BY <1>d, <1>e, <2>1, <2>2
<1>4. ASSUME NEW r \in Requests, Unreachable(r) PROVE BackedAt(i)'
  <2>1. Backing(i)' = Backing(i)
    BY <1>4 DEF Unreachable, Backing
  <2>. QED
    BY <1>d, <1>2, <1>4, <2>1 DEF Unreachable
<1>5. ASSUME NEW r \in Requests, ReportWithdrawn(r) PROVE BackedAt(i)'
  <2>1. Backing(i)' = Backing(i)
    BY <1>5 DEF ReportWithdrawn, Backing
  <2>2. InFlight(i)' \subseteq InFlight(i)
    <3>1. flight' = [flight EXCEPT ![r] = "idle"]
      BY <1>5 DEF ReportWithdrawn
    <3>. QED
      BY <3>1, FlightEnds
  <2>. QED
    BY <1>d, <1>5, <2>1, <2>2 DEF ReportWithdrawn
<1>6. ASSUME NEW r \in Requests, Report(r) PROVE BackedAt(i)'
  <2> DEFINE h == Home[r]
  <2>1. flight' = [flight EXCEPT ![r] = "idle"] /\ flight[r] \in {"leased", "open"}
    BY <1>6 DEF Report, TypeOK
  <2>2. /\ \A j \in Instances \ {h} : Backing(j)' = Backing(j)
        /\ \E l : Backing(h)' = Backing(h) \ {l}
    BY <1>6, <1>c, ReleaseFades DEF Report
  <2>3. /\ InFlight(i)' = IF i = h /\ flight[r] = "leased"
                           THEN InFlight(i) \ {r} ELSE InFlight(i)
        /\ flight[r] = "leased" => r \in InFlight(h)
    BY <2>1, FlightEnds
  <2>4. PICK S : Erodes(S) /\ (flight[r] = "open" => S = {h})
    BY <1>6 DEF Report
  <2>5. CASE i # h
    BY <1>d, <2>2, <2>5, <2>3, <2>4
  <2>6. CASE i = h /\ flight[r] = "open"
    BY <1>d, <2>6, <2>3, <2>4
  <2>7. CASE i = h /\ flight[r] = "leased"
    <3>1. r \in InFlight(i) /\ InFlight(i)' = InFlight(i) \ {r}
      BY <2>7, <2>3
    <3>3. CASE i \notin eroded
      BY <1>b, <2>2, <2>7, <3>1, <3>3, BackedReports
    <3>4. CASE i \in eroded
      BY <1>a, <2>4, <3>4, NotEroded, NoneInFlight
    <3>. QED
      BY <3>3, <3>4
  <2>. QED
    BY <2>1, <2>5, <2>6, <2>7
<1>7. ASSUME NEW c \in Instances, Credit(c) PROVE BackedAt(i)'
  <2>1. InFlight(i)' = InFlight(i) /\ Erodes({c})
    BY <1>7, SameFlight DEF Credit
  <2>2. i = c \/ Backing(i)' = Backing(i)
    BY <1>7, ReleaseFades DEF Credit
  <2>. QED
    BY <1>d, <2>1, <2>2
<1>8. ASSUME NEW c \in Instances, Crash(c) PROVE BackedAt(i)'
  <2>1. CASE i = c
    <3>1. InFlight(i)' = {}
      BY <1>8, <2>1 DEF Crash, InFlight
    <3>. QED
      BY <1>a, <3>1, NoneInFlight
  <2>2. CASE i # c
    <3>1. InFlight(i)' = InFlight(i) /\ Backing(i)' = Backing(i)
      BY <1>8, <2>2 DEF Crash, InFlight, Backing, TypeOK
    <3>. QED
      BY <1>d, <1>8, <3>1 DEF Crash
  <2>. QED
    BY <2>1, <2>2
<1>9. CASE Tick
  BY <1>d, <1>e, <1>9, SameFlight DEF Tick
<1>10. CASE NextWindow \/ UNCHANGED vars
  <2>1. InFlight(i)' = InFlight(i) /\ Backing(i)' = Backing(i) /\ eroded' = eroded
    BY <1>10 DEF NextWindow, vars, InFlight, Backing
  <2>. QED
    BY <1>b, <2>1 DEF BackedAt
<1>. QED
  BY <1>1, <1>3, <1>4, <1>5, <1>6, <1>7, <1>8, <1>9, <1>10 DEF Next

-----------------------------------------------------------------------------
(* The shared limit *)

LEMMA SmallerInjects ==
  ASSUME NEW A, NEW B, IsFiniteSet(A), IsFiniteSet(B), Cardinality(A) <= Cardinality(B)
  PROVE  ExistsInjection(A, B)
<1>1. /\ Cardinality(A) \in Nat /\ ExistsBijection(1..Cardinality(A), A)
      /\ Cardinality(B) \in Nat /\ ExistsBijection(1..Cardinality(B), B)
  BY FS_CardinalityType
<1>2. ExistsInjection(1..Cardinality(A), 1..Cardinality(B))
  BY <1>1, Fun_NatInjLeq
<1>3. ExistsInjection(A, 1..Cardinality(A))
  BY <1>1, Fun_ExistsBijSymmetric, Fun_ExistsBijEquiv
<1>4. ExistsInjection(1..Cardinality(B), B)
  BY <1>1, Fun_ExistsBijEquiv
<1>. QED
  BY <1>2, <1>3, <1>4, Fun_ExistsInjTransitive

\* Instances whose requests are backed one by one are backed together: their leases
\* are different ones.
LEMMA TogetherBacked ==
  ASSUME TypeOK, IdsDistinct, \A i \in Instances : ExistsInjection(InFlight(i), Backing(i))
  PROVE  ExistsInjection(Leased, DOMAIN zset)
<1> DEFINE of == [i \in Instances |-> CHOOSE f : f \in Injection(InFlight(i), Backing(i))]
           all == [r \in Leased |-> of[Home[r]][r]]
<1>1. \A i \in Instances : of[i] \in Injection(InFlight(i), Backing(i))
  BY DEF ExistsInjection
<1>2. \A i \in Instances : /\ \A r \in InFlight(i) : of[i][r] \in Backing(i)
                          /\ \A r, q \in InFlight(i) : of[i][r] = of[i][q] => r = q
  BY <1>1, Fun_InjectionProperties
<1>3. \A r \in Leased : Home[r] \in Instances /\ r \in InFlight(Home[r])
  BY HomeAssumption DEF Leased, InFlight
<1> HIDE DEF of
<1>4. \A r \in Leased : all[r] \in DOMAIN zset /\ all[r] \in Range(local[Home[r]])
  BY <1>2, <1>3 DEF Backing
<1>5. ASSUME NEW r \in Leased, NEW q \in Leased, all[r] = all[q] PROVE r = q
  <2>1. Home[r] = Home[q]
    BY <1>3, <1>4, <1>5 DEF IdsDistinct
  <2>. QED
    BY <1>2, <1>3, <1>5, <2>1
<1>6. all \in Injection(Leased, DOMAIN zset)
  BY <1>4, <1>5, Fun_IsInj
<1>. QED
  BY <1>6 DEF ExistsInjection

Limited == Cardinality(DOMAIN zset) <= MaxConcurrent

LEMMA LimitedStep == TypeOK /\ TypeOK' /\ Limited /\ [Next]_vars => Limited'
<1> SUFFICES ASSUME TypeOK, TypeOK', Limited, [Next]_vars PROVE Limited'
  OBVIOUS
<1>0. \A r \in Requests : Home[r] \in Instances
  BY HomeAssumption
<1>a. /\ IsFiniteSet(DOMAIN zset) /\ Cardinality(DOMAIN zset) \in Nat /\ MaxConcurrent \in Nat
  BY FS_Subset, FS_CardinalityType, LeasesAssumption, LimitAssumption DEF TypeOK
<1>b. ASSUME DOMAIN zset' \subseteq DOMAIN zset PROVE Limited'
  <2>1. IsFiniteSet(DOMAIN zset') /\ Cardinality(DOMAIN zset') <= Cardinality(DOMAIN zset)
    BY <1>a, <1>b, FS_Subset
  <2>2. Cardinality(DOMAIN zset') \in Nat
    BY <2>1, FS_CardinalityType
  <2>. QED
    BY <1>a, <2>1, <2>2 DEF Limited
<1>c. ASSUME NEW i \in Instances, NEW l \in Leases, ScriptGrants(i, l) PROVE Limited'
  <2>1. Counted(i) \subseteq DOMAIN zset
    BY DEF Counted
  <2>2. IsFiniteSet(Counted(i)) /\ Cardinality(Counted(i)) \in Nat
    BY <1>a, <2>1, FS_Subset, FS_CardinalityType
  <2>3. Cardinality(Counted(i) \cup {l}) <= Cardinality(Counted(i)) + 1
    BY <2>2, FS_AddElement
  <2>4. Cardinality(Counted(i)) + 1 <= MaxConcurrent
    BY <1>a, <1>c, <2>2 DEF ScriptGrants, Full
  <2>5. DOMAIN zset' = Counted(i) \cup {l}
    BY <1>c DEF ScriptGrants
  <2>6. Cardinality(Counted(i) \cup {l}) \in Nat
    BY <2>2, FS_AddElement, FS_CardinalityType
  <2>. QED
    BY <1>a, <2>2, <2>3, <2>4, <2>5, <2>6 DEF Limited
<1>1. ASSUME NEW r \in Requests, Acquire(r) \/ ReplyLost(r) PROVE Limited'
  <2>1. ScriptRefuses(Home[r]) \/ \E l \in Leases : ScriptGrants(Home[r], l)
    BY <1>1 DEF Acquire, ReplyLost
  <2>. QED
    BY <1>0, <1>b, <1>c, <2>1, RefusalPurges
<1>2. ASSUME NEW r \in Requests, Rejected(r) PROVE Limited'
  BY <1>0, <1>2, <1>b, RefusalPurges DEF Rejected
<1>3. ASSUME NEW i \in Instances, ReleaseOne(i) PROVE Limited'
  BY <1>3, <1>b, ReleaseTakesAway
<1>4. CASE Tick
  BY <1>4, <1>b DEF Tick, NoLeases
<1>5. ASSUME zset' = zset PROVE Limited'
  BY <1>5, <1>b
<1>. QED
  BY <1>0, <1>1, <1>2, <1>3, <1>4, <1>5
     DEF Next, vars, Unreachable, Report, ReportWithdrawn, Credit, Crash, NextWindow

BackedInv == IdsDistinct /\ IsFiniteSet(Leased) /\ Limited /\ InFlightBacked

LEMMA BackedInit == Init => BackedInv
<1> SUFFICES ASSUME Init PROVE BackedInv
  OBVIOUS
<1>1. Leased = {} /\ DOMAIN zset = {} /\ \A i \in Instances : InFlight(i) = {} /\ Backing(i) = {}
  BY DEF Init, NoLeases, Leased, InFlight, Backing
<1>2. IsFiniteSet({}) /\ Cardinality({}) = 0
  BY FS_EmptySet
<1>3. Limited
  BY <1>1, <1>2, LimitAssumption DEF Limited
<1>4. ASSUME NEW i \in Instances PROVE Cardinality(InFlight(i)) <= Cardinality(Backing(i))
  <2>1. InFlight(i) = {} /\ Backing(i) = {}
    BY <1>1
  <2>2. Cardinality(InFlight(i)) = 0 /\ Cardinality(Backing(i)) = 0
    BY <1>2, <2>1
  <2>. QED
    BY <2>2
<1>5. InFlightBacked
  BY <1>4 DEF InFlightBacked
<1>6. IsFiniteSet(Leased)
  BY <1>1, <1>2
<1>. QED
  BY <1>3, <1>5, <1>6, IdsInit DEF BackedInv

\* For any number of instances and requests, clocks, crashes, outages and late
\* releases: what is in flight is backed by leases that Redis counts, and so all
\* instances together keep the shared limit, except where a lease ran out under its
\* request or was given back by another's report.
THEOREM SharedLimitIsHonoured == Spec => []SharedLimitHonoured
<1>1. TypeOK /\ BackedInv => SharedLimitHonoured
  <2> SUFFICES ASSUME TypeOK, BackedInv, eroded = {} PROVE Cardinality(Leased) <= MaxConcurrent
    BY DEF SharedLimitHonoured, BackedInv
  <2>1. \A i \in Instances : ExistsInjection(InFlight(i), Backing(i))
    BY CardsFinite, SmallerInjects DEF BackedInv, InFlightBacked
  <2>2. PICK f : f \in Injection(Leased, DOMAIN zset)
    BY <2>1, TogetherBacked DEF BackedInv, ExistsInjection
  <2>3. IsFiniteSet(DOMAIN zset) /\ Cardinality(DOMAIN zset) \in Nat
    BY FS_Subset, FS_CardinalityType, LeasesAssumption DEF TypeOK
  <2>4. Cardinality(Leased) <= Cardinality(DOMAIN zset) /\ Cardinality(Leased) \in Nat
    BY <2>2, <2>3, FS_Injection, FS_CardinalityType
  <2>. QED
    BY <2>3, <2>4, LimitAssumption DEF BackedInv, Limited
<1>2. TypeOK /\ TypeOK' /\ BackedInv /\ [Next]_vars => BackedInv'
  BY IdsStep, LeasedStep, LimitedStep, BackedStep DEF BackedInv
<1>. QED
  BY <1>1, <1>2, Typing, BackedInit, PTL DEF Spec

-----------------------------------------------------------------------------
(* Nothing is counted for nobody *)

\* While nothing has leaked, every member is remembered by an instance, which has
\* at least as many requests in flight.
Covered ==
  /\ \A l \in DOMAIN zset : \E i \in Instances : l \in Range(local[i])
  /\ \A i \in Instances : CoveredAt(i)
CoverInv == ~leaked => Covered

LEMMA NothingCounted ==
  ASSUME TypeOK', IsFiniteSet(Leased'), DOMAIN zset' = {}
  PROVE  Covered'
<1>1. ASSUME NEW i \in Instances PROVE CoveredAt(i)'
  <2>1. Backing(i)' = {} /\ InFlight(i)' \subseteq Leased'
    BY DEF Backing, InFlight, Leased
  <2>2. Cardinality(InFlight(i)') \in Nat /\ Cardinality({}) = 0
    BY <2>1, FS_Subset, FS_CardinalityType, FS_EmptySet
  <2>. QED
    BY <2>1, <2>2 DEF CoveredAt
<1>. QED
  BY <1>1 DEF Covered

LEMMA CoveredStill ==
  ASSUME TypeOK, IsFiniteSet(Leased), IsFiniteSet(Leased'), NEW i \in Instances,
         CoveredAt(i), InFlight(i) \subseteq InFlight(i)', Backing(i)' \subseteq Backing(i)
  PROVE  CoveredAt(i)'
<1>1. IsFiniteSet(InFlight(i)')
  <2>1. InFlight(i)' \subseteq Leased'
    BY DEF InFlight, Leased
  <2>. QED
    BY <2>1, FS_Subset
<1>2. /\ Cardinality(InFlight(i)) <= Cardinality(InFlight(i)')
      /\ Cardinality(Backing(i)') <= Cardinality(Backing(i))
      /\ IsFiniteSet(Backing(i)')
  BY <1>1, CardsFinite, FS_Subset
<1>3. /\ Cardinality(InFlight(i)') \in Nat /\ Cardinality(InFlight(i)) \in Nat
      /\ Cardinality(Backing(i)) \in Nat /\ Cardinality(Backing(i)') \in Nat
  BY <1>1, <1>2, CardsFinite, FS_CardinalityType
<1>. QED
  BY <1>2, <1>3 DEF CoveredAt

LEMMA CoveredGrows ==
  ASSUME TypeOK, IsFiniteSet(Leased), NEW i \in Instances, CoveredAt(i),
         NEW r, r \notin InFlight(i), InFlight(i)' = InFlight(i) \cup {r},
         NEW l, Backing(i)' \subseteq Backing(i) \cup {l}
  PROVE  CoveredAt(i)'
<1>0. /\ IsFiniteSet(InFlight(i)) /\ Cardinality(InFlight(i)) \in Nat
      /\ IsFiniteSet(Backing(i)) /\ Cardinality(Backing(i)) \in Nat
  BY CardsFinite
<1>1. /\ IsFiniteSet(Backing(i) \cup {l})
      /\ Cardinality(Backing(i) \cup {l}) <= Cardinality(Backing(i)) + 1
      /\ Cardinality(InFlight(i) \cup {r}) = Cardinality(InFlight(i)) + 1
  <2>1. /\ IsFiniteSet(Backing(i) \cup {l})
        /\ Cardinality(Backing(i) \cup {l}) =
             IF l \in Backing(i) THEN Cardinality(Backing(i)) ELSE Cardinality(Backing(i)) + 1
    BY <1>0, FS_AddElement
  <2>2. Cardinality(InFlight(i) \cup {r}) = Cardinality(InFlight(i)) + 1
    BY <1>0, FS_AddElement
  <2>. QED
    BY <1>0, <2>1, <2>2
<1>2. /\ IsFiniteSet(Backing(i)')
      /\ Cardinality(Backing(i)') <= Cardinality(Backing(i) \cup {l})
  BY <1>1, FS_Subset
<1>3. /\ Cardinality(InFlight(i)) \in Nat /\ Cardinality(Backing(i)) \in Nat
      /\ Cardinality(Backing(i)') \in Nat /\ Cardinality(Backing(i) \cup {l}) \in Nat
  BY <1>1, <1>2, CardsFinite, FS_CardinalityType
<1>. QED
  BY <1>1, <1>2, <1>3 DEF CoveredAt

LEMMA CoveredReports ==
  ASSUME TypeOK, IsFiniteSet(Leased), NEW i \in Instances, CoveredAt(i),
         NEW r \in InFlight(i), InFlight(i)' = InFlight(i) \ {r},
         NEW l, Backing(i)' = Backing(i) \ {l}, Backing(i) = {} \/ l \in Backing(i)
  PROVE  CoveredAt(i)'
<1>1. Cardinality(InFlight(i) \ {r}) = Cardinality(InFlight(i)) - 1
  BY CardsFinite, FS_RemoveElement
<1>2. \/ l \in Backing(i) /\ Cardinality(Backing(i) \ {l}) = Cardinality(Backing(i)) - 1
      \/ Backing(i) \ {l} = {} /\ Cardinality(Backing(i) \ {l}) = 0
  BY CardsFinite, FS_RemoveElement, FS_EmptySet
<1>3. /\ Cardinality(InFlight(i)) \in Nat /\ Cardinality(Backing(i)) \in Nat
      /\ Cardinality(InFlight(i) \ {r}) \in Nat
  BY CardsFinite, FS_RemoveElement, FS_CardinalityType
<1>. QED
  BY <1>1, <1>2, <1>3 DEF CoveredAt

\* release_one, when it leaks nothing, takes one lease that is counted or finds
\* that none of the instance's is.
LEMMA ReleaseCovers ==
  ASSUME TypeOK, TypeOK', IdsDistinct, Ordered, NEW i \in Instances, ReleaseOne(i),
         ~leaked', DOMAIN zset' # {}
  PROVE  /\ ~leaked
         /\ \A m \in DOMAIN zset' : m \in DOMAIN zset
         /\ \A m \in DOMAIN zset' : \A j \in Instances :
              m \in Range(local[j]) => m \in Range(local'[j])
         /\ \E l : Backing(i)' = Backing(i) \ {l} /\ (Backing(i) = {} \/ l \in Backing(i))
<1>1. CASE local[i] = <<>>
  <2>1. UNCHANGED <<zset, local, leaked>>
    BY <1>1 DEF ReleaseOne, redis
  <2>2. Backing(i) = {} /\ Backing(i)' = {}
    BY <1>1, <2>1 DEF Backing, Range
  <2>. QED
    BY <2>1, <2>2
<1>2. CASE local[i] # <<>>
  <2> DEFINE l == local[i][Len(local[i])]
  <2>1. /\ local[i] \in Seq(Leases) /\ Len(local[i]) \in Nat
        /\ Len(local[i]) \in 1..Len(local[i])
    BY <1>2 DEF TypeOK
  <2>2. /\ local'[i] = SubSeq(local[i], 1, Len(local[i]) - 1)
        /\ \A j \in Instances \ {i} : local'[j] = local[j]
    BY <1>2 DEF ReleaseOne, TypeOK
  <2>3. Range(local'[i]) = Range(local[i]) \ {l} /\ l \in Range(local[i])
    BY <1>2, <2>1, <2>2, Popped DEF IdsDistinct
  <2>4. \/ ReleaseScript(l) /\ Leaks(l \in DOMAIN zset \ DOMAIN keys)
        \/ Leaks(TRUE)
    BY <1>2 DEF ReleaseOne
  <2>5. ReleaseScript(l) /\ ~leaked /\ ~(l \in DOMAIN zset \ DOMAIN keys)
    BY <2>4, NotLeaked
  <2>6. DOMAIN zset' = DOMAIN zset \ {l}
    BY <2>5 DEF ReleaseScript, Restrict
  <2>7. Backing(i)' = Backing(i) \ {l}
    BY <2>3, <2>6 DEF Backing
  <2>8. ASSUME NEW x \in Backing(i) PROVE l \in Backing(i)
    <3>1. PICK a \in 1..Len(local[i]) : x = local[i][a]
      BY <2>1, RangeOf DEF Backing
    <3>2. local[i][a] \in DOMAIN zset /\ a <= Len(local[i])
      BY <2>1, <3>1 DEF Backing
    <3>3. l \in DOMAIN zset
      BY <2>1, <3>1, <3>2 DEF Ordered, Order
    <3>. QED
      BY <2>3, <3>3 DEF Backing
  <2>9. \A m \in DOMAIN zset' : \A j \in Instances :
          m \in Range(local[j]) => m \in Range(local'[j])
    BY <2>2, <2>3, <2>6
  <2>10. Backing(i) = {} \/ l \in Backing(i)
    BY <2>8
  <2>. QED
    BY <2>5, <2>6, <2>7, <2>9, <2>10
<1>. QED
  BY <1>1, <1>2

LEMMA CoverStep ==
  TypeOK /\ TypeOK' /\ IdsDistinct /\ Ordered /\ IsFiniteSet(Leased) /\ CoverInv /\ [Next]_vars
    => CoverInv'
<1> SUFFICES ASSUME TypeOK, TypeOK', IdsDistinct, Ordered, IsFiniteSet(Leased), CoverInv,
                    [Next]_vars, ~leaked', DOMAIN zset' # {}
             PROVE  Covered'
  BY LeasedStep, NothingCounted DEF CoverInv
<1>a. IsFiniteSet(Leased')
  BY LeasedStep
<1>b. \A r \in Requests : Home[r] \in Instances
  BY HomeAssumption
<1>c. ~leaked => Covered
  BY DEF CoverInv
<1>d. ASSUME ~leaked, \A m \in DOMAIN zset' : m \in DOMAIN zset,
             \A m \in DOMAIN zset' : \A j \in Instances :
               m \in Range(local[j]) => m \in Range(local'[j]),
             \A j \in Instances : InFlight(j) \subseteq InFlight(j)',
             \A j \in Instances : Backing(j)' \subseteq Backing(j)
      PROVE  Covered'
  <2>1. \A l \in DOMAIN zset' : \E i \in Instances : l \in Range(local'[i])
    BY <1>c, <1>d DEF Covered
  <2>2. ASSUME NEW i \in Instances PROVE CoveredAt(i)'
    BY <1>a, <1>c, <1>d, CoveredStill DEF Covered
  <2>. QED
    BY <2>1, <2>2 DEF Covered
<1>e. ASSUME ~leaked, local' = local, DOMAIN zset' \subseteq DOMAIN zset,
             \A j \in Instances : InFlight(j) \subseteq InFlight(j)'
      PROVE  Covered'
  <2>1. \A j \in Instances : Backing(j)' \subseteq Backing(j)
    BY <1>e DEF Backing
  <2>. QED
    BY <1>d, <1>e, <2>1
<1>f. ASSUME Leaks(TRUE) PROVE FALSE
  BY <1>f, NotLeaked
<1>g. ASSUME Leaks(FALSE) PROVE ~leaked
  BY <1>g, NotLeaked
<1>h. ASSUME NEW r \in Requests, WithoutRedis(r), flight[r] = "idle"
      PROVE  \A j \in Instances : InFlight(j)' = InFlight(j)
  <2>1. PICK f \in {"idle", "open"} : flight' = [flight EXCEPT ![r] = f]
    BY <1>h DEF WithoutRedis
  <2>. QED
    BY <1>h, <2>1, FlightEnds
<1>1. ASSUME NEW r \in Requests, Acquire(r) PROVE Covered'
  <2> DEFINE h == Home[r]
  <2>1. PICK l \in Leases : Granted(h, l)
    BY <1>1 DEF Acquire, Granted, NextLease
  <2>2. /\ l \in Fresh /\ ScriptGrants(h, l) /\ Leaks(FALSE) /\ flight[r] = "idle"
        /\ local' = [local EXCEPT ![h] = Append(@, l)]
        /\ flight' = [flight EXCEPT ![r] = "leased"]
    BY <1>1, <2>1 DEF Granted, Acquire
  <2>3. ~leaked /\ Covered /\ h \in Instances
    BY <1>b, <1>c, <1>g, <2>2
  <2>4. /\ InFlight(h)' = InFlight(h) \cup {r}
        /\ \A j \in Instances : j # h => InFlight(j)' = InFlight(j)
    BY <2>2, FlightStarts
  <2>5. r \notin InFlight(h)
    BY <2>2 DEF InFlight
  <2> HIDE DEF h
  <2>6. DOMAIN zset' \subseteq DOMAIN zset \cup {l}
    BY <2>2 DEF ScriptGrants, Counted
  <2>7. /\ Range(local'[h]) = Range(local[h]) \cup {l}
        /\ \A j \in Instances \ {h} : local'[j] = local[j]
    BY <2>2, <2>3, Appended DEF TypeOK
  <2>8. \A x \in DOMAIN zset' : \E i \in Instances : x \in Range(local'[i])
    BY <2>3, <2>6, <2>7 DEF Covered
  <2>9. CoveredAt(h)'
    <3>1. Backing(h)' \subseteq Backing(h) \cup {l}
      BY <2>6, <2>7 DEF Backing
    <3>. QED
      BY <2>3, <2>4, <2>5, <3>1, CoveredGrows DEF Covered
  <2>10. ASSUME NEW j \in Instances \ {h} PROVE CoveredAt(j)'
    <3>1. l \notin Range(local[j])
      BY <2>2, FreshIds
    <3>2. Backing(j)' \subseteq Backing(j)
      BY <2>6, <2>7, <3>1 DEF Backing
    <3>. QED
      BY <1>a, <2>3, <2>4, <3>2, CoveredStill DEF Covered
  <2>. QED
    BY <2>8, <2>9, <2>10 DEF Covered
<1>2. ASSUME NEW r \in Requests, Rejected(r) PROVE Covered'
  <2>1. \A j \in Instances : InFlight(j)' = InFlight(j)
    BY <1>2, <1>h, SameFlight DEF Rejected
  <2>2. DOMAIN zset' \subseteq DOMAIN zset /\ local' = local /\ Leaks(FALSE)
    BY <1>2, <1>b, RefusalPurges DEF Rejected
  <2>. QED
    BY <1>e, <1>g, <2>1, <2>2
<1>3. ASSUME NEW r \in Requests, ReplyLost(r) PROVE Covered'
  <2>1. \A j \in Instances : InFlight(j)' = InFlight(j)
    BY <1>3, <1>h DEF ReplyLost
  <2>2. ScriptRefuses(Home[r]) /\ Leaks(FALSE) /\ local' = local
    BY <1>3, <1>f DEF ReplyLost
  <2>3. DOMAIN zset' \subseteq DOMAIN zset
    BY <1>b, <2>2, RefusalPurges
  <2>. QED
    BY <1>e, <1>g, <2>1, <2>2, <2>3
<1>4. ASSUME NEW r \in Requests, Unreachable(r) PROVE Covered'
  <2>1. \A j \in Instances : InFlight(j)' = InFlight(j)
    BY <1>4, <1>h DEF Unreachable
  <2>. QED
    BY <1>4, <1>e, <2>1 DEF Unreachable, redis
<1>5. ASSUME NEW r \in Requests, Report(r) PROVE Covered'
  <2> DEFINE h == Home[r]
  <2>1. flight' = [flight EXCEPT ![r] = "idle"] /\ flight[r] \in {"leased", "open"}
    BY <1>5 DEF Report, TypeOK
  <2>2. h \in Instances /\ ReleaseOne(h)
    BY <1>5, <1>b DEF Report
  <2>3. \A j \in Instances : InFlight(j)' = IF j = h /\ flight[r] = "leased"
                                            THEN InFlight(j) \ {r} ELSE InFlight(j)
    BY <2>1, FlightEnds
  <2>4. flight[r] = "leased" => r \in InFlight(h)
    BY <2>1, FlightEnds
  <2> HIDE DEF h
  <2>5. \A j \in Instances \ {h} : Backing(j)' = Backing(j)
    BY <2>2, ReleaseFades
  <2>6. /\ ~leaked
        /\ \A m \in DOMAIN zset' : m \in DOMAIN zset
        /\ \A m \in DOMAIN zset' : \A j \in Instances :
             m \in Range(local[j]) => m \in Range(local'[j])
    BY <2>2, ReleaseCovers
  <2>7. PICK l : Backing(h)' = Backing(h) \ {l} /\ (Backing(h) = {} \/ l \in Backing(h))
    BY <2>2, ReleaseCovers
  <2>8. CASE flight[r] = "open"
    <3>1. \A j \in Instances : Backing(j)' \subseteq Backing(j)
      BY <2>5, <2>7
    <3>2. \A j \in Instances : InFlight(j) \subseteq InFlight(j)'
      BY <2>3, <2>8
    <3>. QED
      BY <1>d, <2>6, <3>1, <3>2
  <2>9. CASE flight[r] = "leased"
    <3>1. CoveredAt(h)'
      BY <1>c, <2>2, <2>3, <2>4, <2>6, <2>7, <2>9, CoveredReports DEF Covered
    <3>2. ASSUME NEW j \in Instances \ {h} PROVE CoveredAt(j)'
      BY <1>a, <1>c, <2>3, <2>5, <2>6, CoveredStill DEF Covered
    <3>3. \A x \in DOMAIN zset' : \E i \in Instances : x \in Range(local'[i])
      BY <1>c, <2>6 DEF Covered
    <3>. QED
      BY <3>1, <3>2, <3>3 DEF Covered
  <2>. QED
    BY <2>1, <2>8, <2>9
<1>6. ASSUME NEW r \in Requests, ReportWithdrawn(r) PROVE Covered'
  <2>1. flight' = [flight EXCEPT ![r] = "idle"] /\ flight[r] # "leased" /\ Leaks(FALSE)
    <3>1. flight[r] = "leased" \/ flight[r] # "leased"
      OBVIOUS
    <3>2. Leaks(flight[r] = "leased") /\ flight' = [flight EXCEPT ![r] = "idle"]
      BY <1>6 DEF ReportWithdrawn
    <3>3. ~leaked' /\ DOMAIN zset' # {} => ~(leaked \/ flight[r] = "leased")
      BY <3>2 DEF Leaks
    <3>. QED
      BY <3>2, <3>3 DEF Leaks
  <2>2. \A j \in Instances : InFlight(j)' = InFlight(j)
    BY <2>1, FlightEnds
  <2>. QED
    BY <1>6, <1>e, <1>g, <2>1, <2>2 DEF ReportWithdrawn, redis
<1>7. ASSUME NEW c \in Instances, Credit(c) PROVE Covered'
  <2>1. \A j \in Instances : InFlight(j)' = InFlight(j)
    BY <1>7, SameFlight DEF Credit
  <2>2. ReleaseOne(c)
    BY <1>7 DEF Credit
  <2>3. \A j \in Instances \ {c} : Backing(j)' = Backing(j)
    BY <2>2, ReleaseFades
  <2>4. /\ ~leaked
        /\ \A m \in DOMAIN zset' : m \in DOMAIN zset
        /\ \A m \in DOMAIN zset' : \A j \in Instances :
             m \in Range(local[j]) => m \in Range(local'[j])
        /\ Backing(c)' \subseteq Backing(c)
    BY <2>2, ReleaseCovers
  <2>5. \A j \in Instances : Backing(j)' \subseteq Backing(j)
    BY <2>3, <2>4
  <2>. QED
    BY <1>d, <2>1, <2>4, <2>5
<1>8. ASSUME NEW c \in Instances, Crash(c) PROVE FALSE
  BY <1>8, <1>f DEF Crash
<1>9. CASE Tick
  <2>1. DOMAIN zset' \subseteq DOMAIN zset
    BY <1>9 DEF Tick, NoLeases
  <2>. QED
    BY <1>9, <1>e, <1>g, <2>1, SameFlight DEF Tick
<1>10. CASE NextWindow \/ UNCHANGED vars
  BY <1>10, <1>e, SameFlight DEF NextWindow, vars
<1>. QED
  BY <1>1, <1>2, <1>3, <1>4, <1>5, <1>6, <1>7, <1>8, <1>9, <1>10 DEF Next

\* Members counted one by one are counted together.
LEMMA TogetherCovered ==
  ASSUME TypeOK, Covered, \A i \in Instances : ExistsInjection(Backing(i), InFlight(i))
  PROVE  ExistsInjection(DOMAIN zset, Leased)
<1> DEFINE for == [i \in Instances |-> CHOOSE f : f \in Injection(Backing(i), InFlight(i))]
           owner == [l \in DOMAIN zset |-> CHOOSE i \in Instances : l \in Range(local[i])]
           all == [l \in DOMAIN zset |-> for[owner[l]][l]]
<1>1. \A i \in Instances : for[i] \in Injection(Backing(i), InFlight(i))
  BY DEF ExistsInjection
<1>2. \A i \in Instances : /\ \A l \in Backing(i) : for[i][l] \in InFlight(i)
                          /\ \A l, m \in Backing(i) : for[i][l] = for[i][m] => l = m
  BY <1>1, Fun_InjectionProperties
<1>3. \A l \in DOMAIN zset : owner[l] \in Instances /\ l \in Backing(owner[l])
  BY DEF Covered, Backing
<1> HIDE DEF for, owner
<1>4. \A l \in DOMAIN zset : all[l] \in Leased /\ Home[all[l]] = owner[l]
  BY <1>2, <1>3 DEF InFlight, Leased
<1>5. ASSUME NEW l \in DOMAIN zset, NEW m \in DOMAIN zset, all[l] = all[m] PROVE l = m
  <2>1. owner[l] = owner[m]
    BY <1>4, <1>5
  <2>. QED
    BY <1>2, <1>3, <1>5, <2>1
<1>6. all \in Injection(DOMAIN zset, Leased)
  BY <1>4, <1>5, Fun_IsInj
<1>. QED
  BY <1>6 DEF ExistsInjection

CapacityInv == IdsDistinct /\ Ordered /\ IsFiniteSet(Leased) /\ CoverInv

LEMMA CapacityInit == Init => CapacityInv
<1> SUFFICES ASSUME Init PROVE CapacityInv
  OBVIOUS
<1>1. DOMAIN zset = {} /\ \A i \in Instances : local[i] = <<>>
  BY DEF Init, NoLeases
<1>2. Ordered
  BY <1>1 DEF Ordered, Order, Range
<1>3. IsFiniteSet(Leased)
  BY BackedInit DEF BackedInv
<1>4. ASSUME NEW i \in Instances PROVE CoveredAt(i)
  <2>1. InFlight(i) = {} /\ Backing(i) = {}
    BY <1>1 DEF Init, InFlight, Backing
  <2>2. Cardinality(InFlight(i)) = 0 /\ Cardinality(Backing(i)) = 0
    BY <2>1, FS_EmptySet
  <2>. QED
    BY <2>2 DEF CoveredAt
<1>5. CoverInv
  BY <1>1, <1>4 DEF CoverInv, Covered
<1>. QED
  BY <1>2, <1>3, <1>5, IdsInit DEF CapacityInv

\* For any number of instances and requests: Redis counts no more leases than there
\* are requests holding one, except after a crash, a lost answer, a failed release
\* or a report on a withdrawn node, and then only until the leases expire.
THEOREM CapacityIsKept == Spec => []CapacityKept
<1>1. TypeOK /\ CapacityInv => CapacityKept
  <2> SUFFICES ASSUME TypeOK, CapacityInv, ~leaked
               PROVE  Cardinality(DOMAIN zset) <= Cardinality(Leased)
    BY DEF CapacityKept
  <2>1. Covered /\ IsFiniteSet(Leased)
    BY DEF CapacityInv, CoverInv
  <2>2. \A i \in Instances : ExistsInjection(Backing(i), InFlight(i))
    BY <2>1, CardsFinite, SmallerInjects DEF Covered, CoveredAt
  <2>3. PICK f : f \in Injection(DOMAIN zset, Leased)
    BY <2>1, <2>2, TogetherCovered DEF ExistsInjection
  <2>. QED
    BY <2>1, <2>3, FS_Injection
<1>2. TypeOK /\ TypeOK' /\ CapacityInv /\ [Next]_vars => CapacityInv'
  BY IdsStep, OrderStep, LeasedStep, CoverStep DEF CapacityInv
<1>. QED
  BY <1>1, <1>2, Typing, CapacityInit, PTL DEF Spec
=============================================================================
