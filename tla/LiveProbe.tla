------------------------------ MODULE LiveProbe ------------------------------
(***************************************************************************)
(* Which models the proxy lists and where it sends their requests.  Names  *)
(* are resolved through static tables and the discovered models            *)
(* (src/zen-proxy-rs/src/v4/model.rs); the live probe                      *)
(* (src/zen-proxy-rs/src/live_probe.rs) calls the names it is given again  *)
(* and again, and takes those that keep failing off the list (main.rs      *)
(* models_handler).  A batch of probes starts on a timer, whether or not   *)
(* the last one is over, and is applied as a whole when it ends.           *)
(***************************************************************************)
EXTENDS Naturals, Sequences, SequencesExt

CONSTANTS
  Static,     \* MODELS and HIDDEN_HELPER_MODELS: public name -> upstream id
  Hidden,     \* the helpers' names, which are not listed
  Aliases,    \* REQUEST_ALIASES: alias -> upstream id
  Found,      \* ids the upstream's model list may hold
  Alias,      \* dynamic_public_alias of every name, None without its suffix
  None,
  Allowlist,  \* dynamic_model_public_allowlist
  Mode,       \* dynamic_model_public_mode
  Threshold,  \* live_probe_fail_threshold
  Batches     \* bound: batches of probes that overlap

ProbeAssumption ==
  /\ Hidden \subseteq DOMAIN Static
  /\ IsFiniteSet(DOMAIN Static) /\ IsFiniteSet(Allowlist)
  /\ Threshold \in Nat \ {0} /\ Batches \in Nat
  /\ DOMAIN Alias = UNION {DOMAIN Static, DOMAIN Aliases, Found, Allowlist}

State == {"candidate", "canary", "active", "quarantined", "retired"}

-----------------------------------------------------------------------------
(* v4/model.rs *)

ListedStatic == DOMAIN Static \ Hidden

\* is_reserved_public_or_upstream
Reserved(m) ==
  \E table \in {Static, Aliases} : m \in DOMAIN table \/ \E n \in DOMAIN table : table[n] = m

\* is_dynamic_routable's states of each mode
Exposed ==
  CASE Mode = "static_only" -> {}
    [] Mode = "active_only" -> {"active"}
    [] Mode = "canary_or_active" -> {"canary", "active"}
    [] Mode = "candidate_canary_or_active" -> {"candidate", "canary", "active"}

Routable(m, states) == Alias[m] # None /\ ~Reserved(m) /\ states[m] \in Exposed

Allowed(m) ==
  \/ Allowlist = {}
  \/ {m, Alias[m]} \cap Allowlist # {}
  \/ \E a \in Allowlist : Alias[a] = Alias[m]

Public(m, states) == Routable(m, states) /\ Allowed(m)

PublicNames(states) == ListedStatic \cup {Alias[m] : m \in {f \in Found : Public(f, states)}}

\* resolve: the tables first, then the discovered models, which the allowlist and
\* the verdicts do not touch.
Resolved(n, states) ==
  IF n \in DOMAIN Static THEN {Static[n]}
  ELSE IF n \in DOMAIN Aliases THEN {Aliases[n]}
  ELSE {m \in Found : Routable(m, states) /\ Alias[m] = n}

-----------------------------------------------------------------------------
(* live_probe.rs *)

\* probe_conf_from: the allowlist as it is written, then the static names
Probed == SetToSeq(Allowlist \cup ListedStatic)

VARIABLES
  states,    \* of the discovered models
  serves,    \* the names that the upstream answers with 200
  verdicts,  \* name -> consecutive_fails, capped, and alive
  running    \* of each batch: what it has found so far; None when it is free

vars == <<states, serves, verdicts, running>>

Names == {Probed[i] : i \in DOMAIN Probed}
Batch == 1..Batches
Unprobed == [alive |-> TRUE, fails |-> 0]

TypeOK ==
  /\ states \in [Found -> State]
  /\ serves \subseteq Names
  /\ verdicts \in [Names -> [alive : BOOLEAN, fails : 0..Threshold]]
  /\ running \in [Batch -> {None} \cup Seq(BOOLEAN)]
  /\ \A b \in Batch : running[b] # None => Len(running[b]) <= Len(Probed)

Init ==
  /\ states = [m \in Found |-> "candidate"]
  /\ serves = Names
  /\ verdicts = [n \in Names |-> Unprobed]
  /\ running = [b \in Batch |-> None]

\* The timer of spawn
Start(b) ==
  /\ running[b] = None
  /\ running' = [running EXCEPT ![b] = <<>>]
  /\ UNCHANGED <<states, serves, verdicts>>

\* probe_model
Probe(b) ==
  /\ running[b] # None /\ Len(running[b]) < Len(Probed)
  /\ running' = [running EXCEPT ![b] = Append(@, Probed[Len(@) + 1] \in serves)]
  /\ UNCHANGED <<states, serves, verdicts>>

Smaller(a, b) == IF a < b THEN a ELSE b

\* Mutant of Judged: a success resets the count and not the verdict.
JudgedBySum(v, ok) ==
  IF ok THEN [v EXCEPT !.fails = 0]
  ELSE LET fails == Smaller(v.fails + 1, Threshold)
       IN  [alive |-> fails < Threshold, fails |-> fails]

Judged(v, ok) ==
  IF ok THEN Unprobed
  ELSE LET fails == Smaller(v.fails + 1, Threshold)
       IN  [alive |-> fails < Threshold, fails |-> fails]

\* The batch's end, under the write lock.
Apply(b) ==
  /\ running[b] # None /\ Len(running[b]) = Len(Probed)
  /\ verdicts' = [n \in Names |->
                    Judged(verdicts[n], running[b][CHOOSE i \in DOMAIN Probed : Probed[i] = n])]
  /\ running' = [running EXCEPT ![b] = None]
  /\ UNCHANGED <<states, serves>>

\* ModelDiscovery
Lifecycle(m, state) ==
  /\ states[m] # state
  /\ states' = [states EXCEPT ![m] = state]
  /\ UNCHANGED <<serves, verdicts, running>>

Upstream(n) ==
  /\ serves' = IF n \in serves THEN serves \ {n} ELSE serves \cup {n}
  /\ UNCHANGED <<states, verdicts, running>>

\* models_handler
Listed == PublicNames(states) \ {n \in Names : ~verdicts[n].alive}

Next ==
  \/ \E b \in Batch : Start(b) \/ Probe(b) \/ Apply(b)
  \/ \E m \in Found, state \in {"candidate", "active", "retired"} : Lifecycle(m, state)
  \/ \E n \in Names : Upstream(n)

\* The timer goes on, probes have timeouts, and the lock is fair.
Fairness == \A b \in Batch : WF_vars(Start(b) \/ Probe(b) \/ Apply(b))

Spec == Init /\ [][Next]_vars /\ Fairness

-----------------------------------------------------------------------------
(* Properties *)

\* Whatever batches overlap and in what order they are applied, a name that the
\* upstream serves for good and that stays public is listed for good in the end,
\* one that is probed and fails for good is not; a listed name is resolved, the
\* discovered ones to their own model unless a request alias hides them
\* (live_probe.rs spawn, model.rs public_models and resolve).
Settles(n) ==
  /\ <>[](n \in serves) /\ <>[](n \in PublicNames(states)) => <>[](n \in Listed)
  /\ <>[](n \notin serves) => <>[](n \notin Listed)

ListedResolve ==
  \A n \in Listed :
    /\ Resolved(n, states) # {}
    /\ n \notin DOMAIN Static \cup DOMAIN Aliases => \A m \in Resolved(n, states) : Public(m, states)

ListingFollowsProbes == []ListedResolve /\ \A n \in Names : Settles(n)
=============================================================================
