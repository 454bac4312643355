---------------------------- MODULE ModelDiscovery ----------------------------
(***************************************************************************)
(* The life of the upstream's free models: DynamicModelRegistry, the       *)
(* ModelProbeEngine and the worker that refreshes the list and probes.     *)
(*                                                                         *)
(* The registry is one map behind a lock.  Three kinds of task change it   *)
(* at the same time: the worker (a refresh, then probes of a few models,   *)
(* one after another), the administrator's requests (promote, demote,      *)
(* quarantine, and a probe run of their own), and every finished request   *)
(* (traffic).  Each action below is one stay under the lock, so whatever   *)
(* was read in an earlier one may be out of date: a refresh merges the new *)
(* list into a copy and stores it in another step, and the engine decides  *)
(* on the record that a step before has returned.                          *)
(*                                                                         *)
(* Counters stop at the value the code compares them with.  The adapter is *)
(* http_bounded; a refresh that fails to download changes nothing.         *)
(***************************************************************************)
EXTENDS Integers, FiniteSets, Sequences, ProbeAnswer

CONSTANTS
  Models,            \* what the upstream may list
  Free,              \* those is_free_candidate accepts and no static model reserves
  Operators,         \* administrators' probe requests that may run at once
  Operated,          \* models the administrators deal with
  Served,            \* models the clients ask for
  RequiredProbes,    \* REQUIRED_PROBE_NAMES, in order
  AvailabilityProbe, \* openai_nonstream_minimal
  CcProbes,          \* what http_probe_earned_claudecode_profile asks for
  Quorum,            \* success_quorum
  Threshold,         \* failure_quarantine_threshold
  MaxPerRound,       \* dynamic_model_probe_max_per_round
  CandidateFailures, \* CANDIDATE_TRAFFIC_QUARANTINE_FAILURES
  MinCanaryRequests, \* TrafficPromotionPolicy
  MinSuccessBps,     \* TrafficPromotionPolicy
  Lists,             \* bound: the lists the upstream may answer with
  Answers,           \* bound: what the upstream answers when a model is probed
  MaxInterventions   \* bound: administrators' requests and counted client results

ASSUME SetsAssumption ==
  /\ Free \subseteq Models /\ Lists \subseteq SUBSET Models /\ Operated \subseteq Models /\ Served \subseteq Models
ASSUME ProbesAssumption ==
  /\ RequiredProbes \in Seq(STRING) /\ AvailabilityProbe \in STRING
  /\ CcProbes \subseteq STRING /\ ~(CcProbes \subseteq {AvailabilityProbe})
ASSUME AnswersAssumption == Answers \in [Models -> SUBSET Responses]
ASSUME OperatorsAssumption == "worker" \notin Operators
ASSUME NumbersAssumption ==
  /\ {Quorum, Threshold, CandidateFailures} \subseteq Nat \ {0}
  /\ {MaxPerRound, MinCanaryRequests, MinSuccessBps,
      MaxInterventions} \subseteq Nat

VARIABLES
  models,    \* the registry: a record for every model
  older,     \* last_probe_unix: <<m, n>> if m's is before n's; never comes first
  refresh,   \* where the worker is in discover_dynamic_models_once
  merged,    \* what the refresh is about to store
  batch,     \* the models the worker has still to probe in this round
  run,       \* the probe run of the worker and of every operator
  deciding,  \* models whose promotion to active was found eligible
  interventions, \* how often administrators and clients acted, for the bound
  earned,    \* history: the probes a model has ever passed
  promoted,  \* history: models an administrator made canary
  demoted,   \* history: models demoted, and neither probed nor promoted since
  proven     \* history: models that ever met the canary traffic quorum

registry == <<models, older>>
round == <<refresh, merged, batch>>
past == <<earned, promoted, demoted, proven>>
vars == <<registry, round, run, deciding, interventions, past>>

States == {"Unknown", "Candidate", "ProbePending", "Canary", "Active",
           "Ignored", "Missing", "Retired", "Quarantined"}
Published == {"Canary", "Active"}
Unproven == {"Candidate", "ProbePending", "Missing"}
Probeable == {"Candidate", "ProbePending", "Canary", "Active"}

Runners == Operators \cup {"worker"}
Matrix == {RequiredProbes[i] : i \in DOMAIN RequiredProbes}
Probes == Matrix \cup {AvailabilityProbe}

\* DiscoveredModel.  public stands for routable and auto_promoted too, which are
\* assigned with it everywhere; "Unknown" is a model not in the map.
Record ==
  [state : States, public : BOOLEAN, probeRequired : BOOLEAN, compatible : BOOLEAN,
   passed : SUBSET Probes, successes : 0 .. Quorum, failures : 0 .. Threshold,
   candidateOk : BOOLEAN, candidateBad : 0 .. CandidateFailures,
   canaryOk : Nat, canaryBad : Nat, canaryFatal : BOOLEAN]

NewRecord ==
  [state |-> "Unknown", public |-> FALSE, probeRequired |-> FALSE,
   compatible |-> FALSE, passed |-> {}, successes |-> 0, failures |-> 0,
   candidateOk |-> FALSE, candidateBad |-> 0,
   canaryOk |-> 0, canaryBad |-> 0, canaryFatal |-> FALSE]

\* A probe run: of which model, of which kind, the state it found (availability
\* checks only), which probe it is at, what the probe gave, and the state it is
\* about to set.
Runs ==
  [pc : {"idle", "ensure", "start", "asking", "record", "set", "mark"},
   model : Models \cup {"none"}, kind : {"matrix", "availability"},
   original : States, probe : Nat, outcome : Outcomes,
   target : States]

NoRun ==
  [pc |-> "idle", model |-> "none", kind |-> "matrix", original |-> "Unknown",
   probe |-> 1, outcome |-> "passed", target |-> "Unknown"]

EmptyBatch == [published |-> {}, candidates |-> {}]
NothingMerged == [models |-> [m \in Models |-> NewRecord], older |-> {}]

Init ==
  /\ models = [m \in Models |-> NewRecord]
  /\ older = {}
  /\ refresh = "idle"
  /\ merged = NothingMerged
  /\ batch = EmptyBatch
  /\ run = [p \in Runners |-> NoRun]
  /\ deciding = {}
  /\ interventions = 0
  /\ earned = [m \in Models |-> {}]
  /\ promoted = {}
  /\ demoted = {}
  /\ proven = {}

-----------------------------------------------------------------------------
(* One record *)

\* Mutant of SetState: keeps the compatibility a model had.
SetStateKeepsProfile(r, state) ==
  [r EXCEPT !.state = state,
            !.public = state \in Published,
            !.probeRequired = state \in Unproven]

\* set_model_state, and sync_lifecycle_flags after a merge: the flags follow the
\* state, and only a published model keeps its compatibility.
SetState(r, state) ==
  [r EXCEPT !.state = state,
            !.public = state \in Published,
            !.probeRequired = state \in Unproven,
            !.compatible = @ /\ state \in Published]

Classified(m) == IF m \in Free THEN "Candidate" ELSE "Ignored"

\* The state of a listed model after merge_seen_model_state.
SeenState(m, state) ==
  IF Classified(m) = "Ignored" THEN "Ignored"
  ELSE IF state \in {"Unknown", "Ignored", "Missing"} THEN "Candidate"
  ELSE state

\* update_from_opencode_json: the record of a model after the merge of a list.
Merge(m, r, list) ==
  IF m \in list THEN SetState(r, SeenState(m, r.state))
  ELSE IF r.state = "Unknown" THEN r
  ELSE SetState(r, "Missing")

\* record_probe_start
Started(r) == IF r.state = "Candidate" THEN SetState(r, "ProbePending") ELSE r

\* What a probe result leaves of the flags.
Exposed(r) ==
  [r EXCEPT !.public = r.state \in Published,
            !.probeRequired = r.state \notin Published,
            !.compatible = @ /\ r.state \in Published]

\* record_probe_success
Passed(r, probe) ==
  Exposed([r EXCEPT !.successes = IF @ < Quorum THEN @ + 1 ELSE @,
                    !.failures = 0,
                    !.passed = @ \cup {probe}])

\* Mutant of Failed: a published model's failures are not counted.
FailedUncounted(r) ==
  IF r.state \in Published THEN [r EXCEPT !.successes = 0]
  ELSE [r EXCEPT !.failures = IF @ < Threshold THEN @ + 1 ELSE @,
                 !.successes = 0, !.public = FALSE,
                 !.probeRequired = TRUE, !.compatible = FALSE]

\* record_probe_failure; a published model keeps its flags.
Failed(r) ==
  LET counted == [r EXCEPT !.failures = IF @ < Threshold THEN @ + 1 ELSE @,
                           !.successes = 0]
  IN  IF r.state \in Published THEN counted ELSE Exposed(counted)

\* evaluate_active_promotion
Eligible(r) ==
  /\ r.state = "Canary"
  /\ r.compatible
  /\ r.canaryOk + r.canaryBad >= MinCanaryRequests
  /\ IF r.canaryOk + r.canaryBad = 0 THEN MinSuccessBps = 0
     ELSE r.canaryOk * 10000 >= MinSuccessBps * (r.canaryOk + r.canaryBad)
  /\ ~r.canaryFatal

\* record_traffic_result; result is "ok", "other" or "fatal" (an empty, broken or
\* protocol-violating answer).
Counted(r, result) ==
  LET counted ==
        [r EXCEPT !.candidateOk = @ \/ (r.state = "Candidate" /\ result = "ok"),
                  !.candidateBad = IF r.state = "Candidate" /\ result # "ok"
                                      /\ @ < CandidateFailures
                                   THEN @ + 1 ELSE @,
                  !.canaryOk = IF r.state = "Canary" /\ result = "ok"
                               THEN @ + 1 ELSE @,
                  !.canaryBad = IF r.state = "Canary" /\ result # "ok"
                                THEN @ + 1 ELSE @,
                  !.canaryFatal = @ \/ (r.state = "Canary" /\ result = "fatal")]
      unproven == /\ r.state = "Candidate" /\ result # "ok"
                  /\ ~counted.candidateOk
                  /\ counted.candidateBad = CandidateFailures
  IN  IF unproven THEN SetState(counted, "Quarantined") ELSE counted

-----------------------------------------------------------------------------
(* The worker: refresh, plan, probe *)

\* The list has been downloaded and is merged into a copy of the registry; an
\* empty one is refused once models are known.
Refresh(list) ==
  /\ refresh = "idle"
  /\ list = {} => \A m \in Models : models[m].state = "Unknown"
  /\ merged' = [models |-> [m \in Models |-> Merge(m, models[m], list)],
                older |-> older]
  /\ refresh' = "copied"
  /\ UNCHANGED <<registry, batch, run, deciding, interventions, past>>

\* The copy replaces the registry, whatever has happened to it since.
Store ==
  /\ refresh = "copied"
  /\ models' = merged.models
  /\ older' = merged.older
  /\ merged' = NothingMerged
  /\ refresh' = "stored"
  /\ UNCHANGED <<batch, run, deciding, interventions, past>>

\* The first MaxPerRound of a set by last_probe_unix.
Batches(S) ==
  {B \in SUBSET S :
     /\ Cardinality(B) = IF Cardinality(S) < MaxPerRound
                         THEN Cardinality(S) ELSE MaxPerRound
     /\ \A m \in B, n \in S \ B : <<n, m>> \notin older}

\* Mutant of Candidates: a candidate whose probe failed is not tried again.
CandidatesUnfailed ==
  {m \in Models : /\ models[m].state = "Candidate" /\ models[m].probeRequired
                  /\ ~models[m].public /\ models[m].failures = 0}

\* probe_candidates
Candidates ==
  {m \in Models : /\ models[m].state = "Candidate" /\ models[m].probeRequired
                  /\ ~models[m].public}

\* probe_published_models
PublishedModels == {m \in Models : models[m].state \in Published}

Plan ==
  /\ refresh = "stored"
  /\ \E published \in Batches(PublishedModels), candidates \in Batches(Candidates) :
       batch' = [published |-> published, candidates |-> candidates]
  /\ refresh' = "probing"
  /\ UNCHANGED <<registry, merged, run, deciding, interventions, past>>

\* run_dynamic_model_probe: a task starts a run of its own.
Begin(p, m, kind) ==
  /\ run[p].pc = "idle"
  /\ run' = [run EXCEPT ![p] = [NoRun EXCEPT !.pc = "ensure", !.model = m, !.kind = kind]]

\* The worker takes the next model, published ones first, and waits for its run.
Take(m) ==
  /\ refresh = "probing"
  /\ \/ /\ m \in batch.published
        /\ Begin("worker", m, "availability")
        /\ batch' = [batch EXCEPT !.published = @ \ {m}]
     \/ /\ batch.published = {}
        /\ m \in batch.candidates
        /\ Begin("worker", m, "matrix")
        /\ batch' = [batch EXCEPT !.candidates = @ \ {m}]
  /\ UNCHANGED <<registry, refresh, merged, deciding, interventions, past>>

\* The round is over; the worker sleeps until the next refresh.
Rest ==
  /\ refresh = "probing"
  /\ batch = EmptyBatch
  /\ run["worker"].pc = "idle"
  /\ refresh' = "idle"
  /\ UNCHANGED <<registry, merged, batch, run, deciding, interventions, past>>

-----------------------------------------------------------------------------
(* A probe run: ModelProbeEngine *)

Of(p) == models[run[p].model]
Ends(p) == run' = [run EXCEPT ![p] = NoRun]
Probe(p) ==
  IF run[p].kind = "availability" THEN AvailabilityProbe
  ELSE RequiredProbes[run[p].probe]

\* Mutant of Touch: what the last probe was older than stays.
TouchAdds(m) == older' = older \cup ((Models \ {m}) \X {m})

\* last_probe_unix becomes now.
Touch(m) ==
  older' = {x \in older : m \notin {x[1], x[2]}} \cup ((Models \ {m}) \X {m})

\* The run's summary has a record r: a published model that ever passed the
\* probes ClaudeCode needs is marked, whatever this run saw; else the run is over.
Concludes(p, r) ==
  IF r.state \in Published /\ CcProbes \subseteq r.passed
  THEN run' = [run EXCEPT ![p].pc = "mark"]
  ELSE Ends(p)

\* ensure_probeable, and the availability check's look at the state before it.
\* After the last required probe the run reads the model for its summary.
Ensure(p) ==
  LET last == run[p].kind = "matrix" /\ run[p].probe > Len(RequiredProbes)
      open == IF run[p].kind = "availability" THEN Published ELSE Probeable
  IN  /\ run[p].pc = "ensure"
      /\ \/ last /\ Concludes(p, Of(p))
         \/ ~last /\ Of(p).state \notin open /\ Ends(p)
         \/ /\ ~last /\ Of(p).state \in open
            /\ run' = [run EXCEPT ![p].pc = "start",
                                  ![p].original = IF run[p].kind = "availability"
                                                  THEN Of(p).state ELSE @]
      /\ UNCHANGED <<registry, round, deciding, interventions, past>>

\* record_probe_start
Start(p) ==
  /\ run[p].pc = "start"
  /\ models' = [models EXCEPT ![run[p].model] = Started(@)]
  /\ Touch(run[p].model)
  /\ run' = [run EXCEPT ![p].pc = "asking"]
  /\ demoted' = demoted \ {run[p].model}
  /\ UNCHANGED <<round, deciding, interventions, earned, promoted, proven>>

\* The upstream's answer, judged for the probe (a reserved model's name may be a
\* free model's too), and ensure_probeable at the start of record_success
\* and record_failure; a passed availability check is recorded without it.
Answer(p, outcome) ==
  /\ run[p].pc = "asking"
  /\ \E r \in Answers[run[p].model] :
       \E free \in {run[p].model \in Free, TRUE} : outcome = RunProbe(Probe(p), free, r)
  /\ \/ /\ \/ Of(p).state \in Probeable
           \/ run[p].kind = "availability" /\ outcome = "passed"
        /\ run' = [run EXCEPT ![p].pc = "record", ![p].outcome = outcome]
     \/ /\ Of(p).state \notin Probeable
        /\ ~(run[p].kind = "availability" /\ outcome = "passed")
        /\ Ends(p)
  /\ UNCHANGED <<registry, round, deciding, interventions, past>>

\* Mutant of Complete: the quorum alone promotes.
CompleteByQuorum(r) == r.successes >= Quorum

\* required_probes_passed, with the quorum of consecutive successes.
Complete(r) ==
  /\ r.successes >= Quorum
  /\ Matrix \subseteq r.passed

WillSet(p, state) == run' = [run EXCEPT ![p].pc = "set", ![p].target = state]

\* record_probe_success, and what the engine makes of the record it returns.
RecordPass(p) ==
  LET r == Passed(Of(p), Probe(p)) IN
  /\ run[p].pc = "record" /\ run[p].outcome = "passed"
  /\ models' = [models EXCEPT ![run[p].model] = r]
  /\ earned' = [earned EXCEPT ![run[p].model] = @ \cup {Probe(p)}]
  /\ Touch(run[p].model)
  /\ \/ run[p].kind = "availability" /\ WillSet(p, run[p].original)
     \/ run[p].kind = "matrix" /\ r.state \in Published /\ Concludes(p, r)
     \/ /\ run[p].kind = "matrix" /\ r.state \notin Published /\ Complete(r)
        /\ WillSet(p, "Canary")
     \/ /\ run[p].kind = "matrix" /\ r.state \notin Published /\ ~Complete(r)
        /\ run' = [run EXCEPT ![p].pc = "ensure", ![p].probe = @ + 1]
  /\ UNCHANGED <<round, deciding, interventions, promoted, demoted, proven>>

\* record_probe_failure, and what the engine makes of the record it returns.
RecordFailure(p) ==
  LET r == Failed(Of(p))
      fatal == run[p].outcome = "hard" \/ r.failures >= Threshold
  IN
  /\ run[p].pc = "record" /\ run[p].outcome # "passed"
  /\ models' = [models EXCEPT ![run[p].model] = r]
  /\ Touch(run[p].model)
  /\ \/ fatal /\ WillSet(p, "Quarantined")
     \/ ~fatal /\ r.state = "ProbePending" /\ WillSet(p, "Candidate")
     \/ /\ ~fatal /\ r.state # "ProbePending"
        /\ Concludes(p, r)
  /\ UNCHANGED <<round, deciding, interventions, past>>

\* The engine's set_model_state, whatever the model's state has become.
Set(p) ==
  LET r == SetState(Of(p), run[p].target) IN
  /\ run[p].pc = "set"
  /\ models' = [models EXCEPT ![run[p].model] = r]
  /\ \/ run[p].kind = "matrix" /\ Concludes(p, r)
     \/ /\ run[p].kind = "availability" /\ r.compatible
        /\ run' = [run EXCEPT ![p].pc = "mark"]
     \/ run[p].kind = "availability" /\ ~r.compatible /\ Ends(p)
  /\ UNCHANGED <<older, round, deciding, interventions, past>>

\* mark_claudecode_compatible
Mark(p) ==
  /\ run[p].pc = "mark"
  /\ models' = [models EXCEPT
                  ![run[p].model].compatible = @ \/ Of(p).state \in Published]
  /\ Ends(p)
  /\ UNCHANGED <<older, round, deciding, interventions, past>>

-----------------------------------------------------------------------------
(* Administrators and clients *)

\* Counts towards the bound.
Intervenes ==
  /\ interventions < MaxInterventions
  /\ interventions' = interventions + 1

AdminProbe(p, m) ==
  /\ Intervenes
  /\ Begin(p, m, "matrix")
  /\ UNCHANGED <<registry, round, deciding, past>>

\* The administrator's set_model_state; 404 for a model not in the map.
AdminSets(m, state) ==
  /\ Intervenes
  /\ models[m].state # "Unknown"
  /\ models' = [models EXCEPT ![m] = SetState(@, state)]
  /\ UNCHANGED <<older, round, run, earned, proven>>

\* model_promote with target canary: no probe is asked for.
PromoteCanary(m) ==
  /\ AdminSets(m, "Canary")
  /\ promoted' = promoted \cup {m}
  /\ demoted' = demoted \ {m}
  /\ UNCHANGED deciding

\* model_promote with target active, up to evaluate_active_promotion's verdict.
DecideActive(m) ==
  /\ Eligible(models[m])
  /\ deciding' = deciding \cup {m}
  /\ proven' = proven \cup {m}
  /\ UNCHANGED <<registry, round, run, interventions, earned, promoted, demoted>>

\* The rest of it; the model may have changed since the verdict.
PromoteActive(m) ==
  /\ m \in deciding
  /\ AdminSets(m, "Active")
  /\ deciding' = deciding \ {m}
  /\ demoted' = demoted \ {m}
  /\ UNCHANGED promoted

\* model_demote
Demote(m) ==
  /\ AdminSets(m, "Candidate")
  /\ demoted' = demoted \cup {m}
  /\ UNCHANGED <<deciding, promoted>>

\* model_quarantine
Quarantine(m) ==
  /\ AdminSets(m, "Quarantined")
  /\ UNCHANGED <<deciding, promoted, demoted>>

\* A finished request of a client reports its result (record_traffic_result); only
\* these states count it.  The widest public mode routes the same states, so that
\* resolving the name before adds no condition; under the others fewer arrive.
Traffic(m, result) ==
  /\ models[m].state \in {"Candidate", "Canary", "Active"}
  /\ Intervenes
  /\ models' = [models EXCEPT ![m] = Counted(@, result)]
  /\ UNCHANGED <<older, round, run, deciding, past>>

-----------------------------------------------------------------------------
Works ==
  \/ Store \/ Plan \/ Rest
  \/ \E m \in Models : Take(m)

Proceeds(p) ==
  \/ Ensure(p) \/ Start(p)
  \/ \E outcome \in Outcomes : Answer(p, outcome)
  \/ RecordPass(p) \/ RecordFailure(p) \/ Set(p) \/ Mark(p)

Administers(m) ==
  \/ \E p \in Operators : AdminProbe(p, m)
  \/ PromoteCanary(m) \/ DecideActive(m) \/ PromoteActive(m)
  \/ Demote(m) \/ Quarantine(m)

Next ==
  \/ \E list \in Lists : Refresh(list)
  \/ Works
  \/ \E p \in Runners : Proceeds(p)
  \/ \E m \in Operated : Administers(m)
  \/ \E m \in Served, result \in {"ok", "other", "fatal"} : Traffic(m, result)

\* The worker and every run's blocking task are scheduled, a probe answers or
\* times out, and now and then the list can be downloaded.
Fairness ==
  /\ WF_vars(Works)
  /\ WF_vars(\E list \in Lists : Refresh(list))
  /\ \A p \in Runners : WF_vars(Proceeds(p))

Spec == Init /\ [][Next]_vars /\ Fairness

-----------------------------------------------------------------------------
(* Properties *)

TypeOK ==
  /\ models \in [Models -> Record]
  /\ older \subseteq Models \X Models
  /\ \A x \in older : <<x[2], x[1]>> \notin older
  /\ refresh \in {"idle", "copied", "stored", "probing"}
  /\ merged \in [models : [Models -> Record], older : SUBSET (Models \X Models)]
  /\ batch \in [published : SUBSET Models, candidates : SUBSET Models]
  /\ run \in [Runners -> Runs]
  /\ \A p \in Runners : run[p].pc # "idle" => run[p].model \in Models
  /\ deciding \subseteq Models /\ interventions \in 0 .. MaxInterventions
  /\ earned \in [Models -> SUBSET Probes]
  /\ promoted \subseteq Models /\ demoted \subseteq Models /\ proven \subseteq Models

FlagsAgree(r) ==
  /\ r.public <=> r.state \in Published
  /\ r.state \in {"Candidate", "ProbePending"} => r.probeRequired
  /\ r.compatible => r.state \in Published

\* The flags that probing, routing and the profile read agree with the state,
\* which seven handlers and the merge set separately: a model is public exactly
\* while published, every candidate can be picked for probing, and only a
\* published model has the ClaudeCode profile.
FlagsFollowState == \A m \in Models : FlagsAgree(models[m])

\* What a state takes: the probes ever passed, or an administrator's promotion to
\* canary; and the traffic quorum to be active.
Deserved(state, passed, canary, quorum) ==
  /\ state \in Published => Matrix \subseteq passed \/ canary
  /\ state = "Active" => quorum

\* Whatever stale copies, late results and decisions overwrite each other: a
\* model is published only if it has passed every required probe at some time or
\* an administrator made it canary, active only if it once met the traffic
\* quorum, and ClaudeCode-compatible only if it has passed the probes for that.
ExposureIsEarned ==
  \A m \in Models :
    /\ Deserved(models[m].state, earned[m], m \in promoted, m \in proven)
    /\ models[m].compatible => CcProbes \subseteq earned[m]

\* No candidate is starved by others or by published models: it is probed, or
\* stops being a candidate (probe_candidates' order).
EveryCandidateTried ==
  \A m \in Models : models[m].state = "Candidate" ~> models[m].state # "Candidate"

PassesFor(m) ==
  \E p \in Runners : run[p].model = m /\ run[p].pc = "asking" /\ Answer(p, "passed")

\* A model that no longer passes any probe leaves the list again and again, also
\* when administrators keep promoting it (README: failures that reach the
\* quarantine threshold remove it).
DeadModelsLeave ==
  \A m \in Models :
    []<><<PassesFor(m)>>_vars \/ []<>(models[m].state \notin Published)

\* "manual admin demotion; probe required before exposure" (admin/service.rs): a
\* demoted model stays hidden until a probe starts or it is promoted again.
DemotionHolds ==
  \A m \in demoted : models[m].state \notin Published
=============================================================================
