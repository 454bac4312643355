------------------------ MODULE ModelDiscovery_proofs ------------------------
(***************************************************************************)
(* For any models, probes, thresholds and interleaving: the records keep   *)
(* their types, the flags follow the state, and no model is exposed        *)
(* without having earned it.                                               *)
(***************************************************************************)
EXTENDS ModelDiscovery, TLAPS

\* A record that may stand in the registry of a model that has ever passed e.
Fits(r, e, canary, quorum) ==
  /\ r \in Record
  /\ FlagsAgree(r)
  /\ Deserved(r.state, e, canary, quorum)
  /\ r.compatible => CcProbes \subseteq e
  /\ r.passed \subseteq e

-----------------------------------------------------------------------------
(* What the operators on a record make of one that fits *)

LEMMA SetStateFields ==
  ASSUME NEW r \in Record, NEW s \in States
  PROVE  /\ SetState(r, s) \in Record
         /\ SetState(r, s).state = s
         /\ SetState(r, s).passed = r.passed
         /\ SetState(r, s).public <=> s \in Published
         /\ SetState(r, s).probeRequired <=> s \in Unproven
         /\ SetState(r, s).compatible <=> r.compatible /\ s \in Published
<1>1. ASSUME NEW a \in BOOLEAN, NEW b \in BOOLEAN, NEW c \in BOOLEAN
      PROVE  [r EXCEPT !.state = s, !.public = a, !.probeRequired = b,
                       !.compatible = c] \in Record
  BY DEF Record
<1>2. SetState(r, s) \in Record
  <2>1. /\ (s \in Published) \in BOOLEAN /\ (s \in Unproven) \in BOOLEAN
        /\ (r.compatible /\ s \in Published) \in BOOLEAN
    OBVIOUS
  <2> QED
    BY <1>1, <2>1 DEF SetState
<1> QED
  BY <1>2 DEF SetState, Record

LEMMA ExposedFields ==
  ASSUME NEW r \in Record
  PROVE  /\ Exposed(r) \in Record
         /\ Exposed(r).state = r.state
         /\ Exposed(r).passed = r.passed
         /\ Exposed(r).public <=> r.state \in Published
         /\ Exposed(r).probeRequired <=> r.state \notin Published
         /\ Exposed(r).compatible <=> r.compatible /\ r.state \in Published
<1>1. ASSUME NEW a \in BOOLEAN, NEW b \in BOOLEAN, NEW c \in BOOLEAN
      PROVE  [r EXCEPT !.public = a, !.probeRequired = b, !.compatible = c] \in Record
  BY DEF Record
<1>2. Exposed(r) \in Record
  <2>1. /\ (r.state \in Published) \in BOOLEAN
        /\ (r.state \notin Published) \in BOOLEAN
        /\ (r.compatible /\ r.state \in Published) \in BOOLEAN
    OBVIOUS
  <2> QED
    BY <1>1, <2>1 DEF Exposed
<1> QED
  BY <1>2 DEF Exposed, Record

\* The counters stay in their ranges.
LEMMA CountsInRange ==
  ASSUME NEW r \in Record
  PROVE  /\ (IF r.successes < Quorum THEN r.successes + 1 ELSE r.successes)
               \in 0 .. Quorum
         /\ (IF r.failures < Threshold THEN r.failures + 1 ELSE r.failures)
               \in 0 .. Threshold
         /\ 0 \in 0 .. Quorum /\ 0 \in 0 .. Threshold
         /\ (IF r.candidateBad < CandidateFailures
             THEN r.candidateBad + 1 ELSE r.candidateBad) \in 0 .. CandidateFailures
         /\ r.candidateBad \in 0 .. CandidateFailures
         /\ r.canaryOk \in Nat /\ r.canaryBad \in Nat
<1>1. Quorum \in Nat /\ Threshold \in Nat /\ CandidateFailures \in Nat
  BY NumbersAssumption
<1>2. /\ r.successes \in 0 .. Quorum /\ r.failures \in 0 .. Threshold
      /\ r.candidateBad \in 0 .. CandidateFailures
      /\ r.canaryOk \in Nat /\ r.canaryBad \in Nat
  BY DEF Record
<1> QED
  BY <1>1, <1>2

LEMMA SetStateFits ==
  ASSUME NEW r, NEW e, NEW c, NEW q, NEW s \in States,
         Fits(r, e, c, q), Deserved(s, e, c, q)
  PROVE  Fits(SetState(r, s), e, c, q)
<1>1. r \in Record
  BY DEF Fits
<1> QED
  BY <1>1, SetStateFields DEF Fits, FlagsAgree, Unproven

LEMMA HiddenFits ==
  ASSUME NEW r, NEW e, NEW c, NEW q, NEW s \in States \ Published,
         Fits(r, e, c, q)
  PROVE  Fits(SetState(r, s), e, c, q)
BY SetStateFits DEF Deserved, Published

LEMMA MergeFits ==
  ASSUME NEW m, NEW r, NEW list, NEW e, NEW c, NEW q, Fits(r, e, c, q)
  PROVE  Fits(Merge(m, r, list), e, c, q)
<1>1. SeenState(m, r.state) \in States /\ Deserved(SeenState(m, r.state), e, c, q)
  BY DEF Fits, SeenState, Classified, Deserved, Published, States, Record
<1>2. "Missing" \in States \ Published
  BY DEF States, Published
<1> QED
  BY <1>1, <1>2, SetStateFits, HiddenFits DEF Merge

LEMMA StartedFits ==
  ASSUME NEW r, NEW e, NEW c, NEW q, Fits(r, e, c, q)
  PROVE  Fits(Started(r), e, c, q)
BY HiddenFits DEF Started, States, Published

LEMMA PassedFits ==
  ASSUME NEW r, NEW e, NEW c, NEW q, NEW probe \in Probes, Fits(r, e, c, q)
  PROVE  /\ Fits(Passed(r, probe), e \cup {probe}, c, q)
         /\ Passed(r, probe).state = r.state
<1> DEFINE n == IF r.successes < Quorum THEN r.successes + 1 ELSE r.successes
           P == r.passed \cup {probe}
           counted == [r EXCEPT !.successes = n, !.failures = 0, !.passed = P]
<1>1. r \in Record
  BY DEF Fits
<1>2. r.passed \in SUBSET Probes
  BY <1>1 DEF Record
<1>3. n \in 0 .. Quorum /\ 0 \in 0 .. Threshold /\ P \in SUBSET Probes
  BY <1>1, <1>2, CountsInRange
<1>4. /\ counted \in Record /\ counted.state = r.state /\ counted.passed = P
      /\ counted.compatible = r.compatible
  <2> HIDE DEF n, P
  <2> QED
    BY <1>1, <1>3 DEF Record
<1>5. Passed(r, probe) = Exposed(counted)
  BY DEF Passed
<1> QED
  <2> HIDE DEF counted
  <2> QED
    BY <1>4, <1>5, ExposedFields DEF Fits, FlagsAgree, Deserved, Published

LEMMA FailedFits ==
  ASSUME NEW r, NEW e, NEW c, NEW q, Fits(r, e, c, q)
  PROVE  Fits(Failed(r), e, c, q) /\ Failed(r).state = r.state
<1> DEFINE f == IF r.failures < Threshold THEN r.failures + 1 ELSE r.failures
           counted == [r EXCEPT !.failures = f, !.successes = 0]
<1>1. r \in Record
  BY DEF Fits
<1>2. f \in 0 .. Threshold /\ 0 \in 0 .. Quorum
  BY <1>1, CountsInRange
<1>3. /\ counted \in Record /\ counted.state = r.state /\ counted.passed = r.passed
      /\ counted.public = r.public /\ counted.probeRequired = r.probeRequired
      /\ counted.compatible = r.compatible
  <2> HIDE DEF f
  <2> QED
    BY <1>1, <1>2 DEF Record
<1>4. Failed(r) = IF r.state \in Published THEN counted ELSE Exposed(counted)
  BY DEF Failed
<1> QED
  <2> HIDE DEF counted
  <2> QED
    BY <1>3, <1>4, ExposedFields DEF Fits, FlagsAgree, Deserved, Published

LEMMA CountedFits ==
  ASSUME NEW r, NEW e, NEW c, NEW q, NEW result, Fits(r, e, c, q)
  PROVE  Fits(Counted(r, result), e, c, q)
<1> DEFINE a == r.candidateOk \/ (r.state = "Candidate" /\ result = "ok")
           b == IF /\ r.state = "Candidate" /\ result # "ok"
                   /\ r.candidateBad < CandidateFailures
                THEN r.candidateBad + 1 ELSE r.candidateBad
           x == IF r.state = "Canary" /\ result = "ok"
                THEN r.canaryOk + 1 ELSE r.canaryOk
           y == IF r.state = "Canary" /\ result # "ok"
                THEN r.canaryBad + 1 ELSE r.canaryBad
           z == r.canaryFatal \/ (r.state = "Canary" /\ result = "fatal")
           counted == [r EXCEPT !.candidateOk = a, !.candidateBad = b,
                                !.canaryOk = x, !.canaryBad = y, !.canaryFatal = z]
<1>1. r \in Record
  BY DEF Fits
<1>2. /\ a \in BOOLEAN /\ b \in 0 .. CandidateFailures
      /\ x \in Nat /\ y \in Nat /\ z \in BOOLEAN
  BY <1>1, CountsInRange
<1>3. /\ counted \in Record /\ counted.state = r.state /\ counted.passed = r.passed
      /\ counted.public = r.public /\ counted.probeRequired = r.probeRequired
      /\ counted.compatible = r.compatible
  <2> HIDE DEF a, b, x, y, z
  <2> QED
    BY <1>1, <1>2 DEF Record
<1>4. Counted(r, result) \in {counted, SetState(counted, "Quarantined")}
  BY DEF Counted
<1> HIDE DEF counted
<1>5. Fits(counted, e, c, q)
  BY <1>3 DEF Fits, FlagsAgree
<1>6. Fits(SetState(counted, "Quarantined"), e, c, q)
  BY <1>5, HiddenFits DEF States, Published
<1> QED
  BY <1>4, <1>5, <1>6

LEMMA MarkedFits ==
  ASSUME NEW r, NEW e, NEW c, NEW q, Fits(r, e, c, q), CcProbes \subseteq e
  PROVE  Fits([r EXCEPT !.compatible = @ \/ r.state \in Published], e, c, q)
<1> DEFINE b == r.compatible \/ r.state \in Published
           marked == [r EXCEPT !.compatible = b]
<1>1. r \in Record
  BY DEF Fits
<1>2. /\ marked \in Record /\ marked.state = r.state /\ marked.passed = r.passed
      /\ marked.public = r.public /\ marked.probeRequired = r.probeRequired
      /\ marked.compatible <=> r.compatible \/ r.state \in Published
  <2>1. b \in BOOLEAN
    OBVIOUS
  <2> HIDE DEF b
  <2>2. /\ marked \in Record /\ marked.state = r.state /\ marked.passed = r.passed
        /\ marked.public = r.public /\ marked.probeRequired = r.probeRequired
        /\ marked.compatible = b
    BY <1>1, <2>1 DEF Record
  <2> QED
    BY <2>2 DEF b
<1> HIDE DEF marked
<1>3. Fits(marked, e, c, q)
  BY <1>2 DEF Fits, FlagsAgree
<1> QED
  BY <1>3 DEF marked

LEMMA FitsGrows ==
  ASSUME NEW e, NEW c, NEW q, NEW e1, NEW c1, NEW q1,
         e \subseteq e1, c => c1, q => q1
  PROVE  /\ \A s : Deserved(s, e, c, q) => Deserved(s, e1, c1, q1)
         /\ \A r : Fits(r, e, c, q) => Fits(r, e1, c1, q1)
BY DEF Fits, Deserved

-----------------------------------------------------------------------------
(* The inductive invariant.  Exposure is decided on records read earlier, so *)
(* what a model has earned must hold of the copy a refresh is about to store *)
(* and of the state a run or an administrator is about to set, too.          *)

EarnedBy(m, r) == Fits(r, earned[m], m \in promoted, m \in proven)
May(m, s) == Deserved(s, earned[m], m \in promoted, m \in proven)

\* Of a run t, when the histories are e, c and q.
TaskFits(t, e, c, q) ==
  /\ t.pc = "mark" => CcProbes \subseteq e[t.model]
  /\ t.pc = "set" => Deserved(t.target, e[t.model], t.model \in c, t.model \in q)
  /\ t.probe # 0
  /\ t.pc \in {"start", "asking", "record"} =>
       IF t.kind = "availability"
       THEN Deserved(t.original, e[t.model], t.model \in c, t.model \in q)
       ELSE t.probe \in DOMAIN RequiredProbes

RunFits(p) == TaskFits(run[p], earned, promoted, proven)

Asymmetric(R) == \A x \in R : <<x[2], x[1]>> \notin R

RegistryFits == \A m \in Models : EarnedBy(m, models[m])
CopyFits == Asymmetric(merged.older) /\ \A m \in Models : EarnedBy(m, merged.models[m])
RunsFit == \A p \in Runners : RunFits(p)
DecisionsFit == \A m \in deciding : May(m, "Active")

Inv == TypeOK /\ RegistryFits /\ CopyFits /\ RunsFit /\ DecisionsFit

\* The histories only grow.
Grows ==
  /\ \A m \in Models : earned[m] \subseteq earned'[m]
  /\ promoted \subseteq promoted'
  /\ proven \subseteq proven'

\* What a step leaves alone keeps fitting while the histories grow.
LEMMA CarryOver ==
  ASSUME Inv, Grows
  PROVE  /\ \A m \in Models : \A s : May(m, s) => May(m, s)'
         /\ \A m \in Models : \A r : EarnedBy(m, r) => EarnedBy(m, r)'
         /\ models' = models => RegistryFits'
         /\ merged' = merged => CopyFits'
         /\ \A p \in Runners : run'[p] = run[p] => RunFits(p)'
         /\ deciding' \subseteq deciding => DecisionsFit'
<1>1. \A m \in Models : /\ \A s : May(m, s) => May(m, s)'
                        /\ \A r : EarnedBy(m, r) => EarnedBy(m, r)'
  <2> TAKE m \in Models
  <2>1. /\ earned[m] \subseteq earned'[m]
        /\ m \in promoted => m \in promoted'
        /\ m \in proven => m \in proven'
    BY DEF Grows
  <2> QED
    BY <2>1, FitsGrows DEF May, EarnedBy
<1>2. models' = models => RegistryFits'
  BY <1>1 DEF Inv, RegistryFits, EarnedBy
<1>3. merged' = merged => CopyFits'
  BY <1>1 DEF Inv, CopyFits, EarnedBy
<1>4. ASSUME NEW p \in Runners, run'[p] = run[p]
      PROVE  RunFits(p)'
  <2>1. run[p].pc # "idle" => run[p].model \in Models
    BY DEF Inv, TypeOK
  <2>2. RunFits(p)
    BY DEF Inv, RunsFit
  <2> QED
    BY <1>1, <1>4, <2>1, <2>2 DEF RunFits, TaskFits, May, Grows
<1>5. deciding' \subseteq deciding => DecisionsFit'
  BY <1>1 DEF Inv, TypeOK, DecisionsFit, May
<1> QED
  BY <1>1, <1>2, <1>3, <1>4, <1>5

-----------------------------------------------------------------------------
(* The three kinds of change a step makes *)

\* One model's record changes to one that fits what the model has earned by then.
LEMMA ModelStep ==
  ASSUME Inv, Grows, NEW m \in Models, NEW r,
         Fits(r, earned'[m], m \in promoted', m \in proven'),
         models' = [models EXCEPT ![m] = r]
  PROVE  models' \in [Models -> Record] /\ RegistryFits'
<1>1. models \in [Models -> Record]
  BY DEF Inv, TypeOK
<1>2. ASSUME NEW n \in Models
      PROVE  Fits(models'[n], earned'[n], n \in promoted', n \in proven')
  <2>1. CASE n = m
    BY <1>1, <2>1
  <2>2. CASE n # m
    <3>1. models'[n] = models[n]
      BY <1>1, <2>2
    <3>2. EarnedBy(n, models[n])
      BY DEF Inv, RegistryFits
    <3>3. \A x : EarnedBy(n, x) => Fits(x, earned'[n], n \in promoted', n \in proven')
      BY CarryOver DEF EarnedBy
    <3> QED
      BY <3>1, <3>2, <3>3
  <2> QED
    BY <2>1, <2>2
<1>3. r \in Record
  BY DEF Fits
<1> QED
  BY <1>1, <1>2, <1>3 DEF RegistryFits, EarnedBy

\* last_probe_unix stays an order.
LEMMA TouchOrders ==
  ASSUME Inv, NEW m \in Models, Touch(m)
  PROVE  older' \subseteq Models \X Models /\ Asymmetric(older')
BY DEF Inv, TypeOK, Touch, Asymmetric

RunsTyped ==
  /\ run \in [Runners -> Runs]
  /\ \A p \in Runners : run[p].pc # "idle" => run[p].model \in Models

\* One task's run changes to one that fits.
LEMMA RunStep ==
  ASSUME Inv, Grows, NEW p \in Runners, NEW t \in Runs,
         t.pc # "idle" => t.model \in Models, TaskFits(t, earned', promoted', proven'),
         run' = [run EXCEPT ![p] = t]
  PROVE  RunsTyped' /\ RunsFit'
<1>1. run'[p] = t /\ \A x \in Runners : x # p => run'[x] = run[x]
  BY DEF Inv, TypeOK
<1>2. RunsTyped'
  BY <1>1 DEF Inv, TypeOK, RunsTyped
<1>3. ASSUME NEW x \in Runners PROVE RunFits(x)'
  <2>1. CASE x = p
    BY <1>1, <2>1 DEF RunFits, TaskFits
  <2>2. CASE x # p
    BY <1>1, <2>2, CarryOver
  <2> QED
    BY <2>1, <2>2
<1> QED
  BY <1>2, <1>3 DEF RunsFit

\* A run that is over fits.
LEMMA RunEnds ==
  ASSUME Inv, Grows, NEW p \in Runners, Ends(p)
  PROVE  RunsTyped' /\ RunsFit'
<1>1. NoRun \in Runs /\ NoRun.pc = "idle" /\ TaskFits(NoRun, earned', promoted', proven')
  BY DEF NoRun, Runs, TaskFits, Outcomes, States
<1> QED
  BY <1>1, RunStep DEF Ends

\* What the invariant says of the run of p and of its model.
LEMMA RunFacts ==
  ASSUME Inv, NEW p \in Runners, run[p].pc # "idle"
  PROVE  /\ run \in [Runners -> Runs] /\ run[p] \in Runs /\ run[p].model \in Models
         /\ models \in [Models -> Record]
         /\ Fits(Of(p), earned[run[p].model], run[p].model \in promoted,
                 run[p].model \in proven)
         /\ Of(p) \in Record
         /\ TaskFits(run[p], earned, promoted, proven)
<1>1. run \in [Runners -> Runs] /\ run[p] \in Runs /\ run[p].model \in Models
      /\ models \in [Models -> Record]
  BY DEF Inv, TypeOK
<1>2. EarnedBy(run[p].model, Of(p))
  BY <1>1 DEF Inv, RegistryFits, Of
<1>3. RunFits(p)
  BY DEF Inv, RunsFit
<1> QED
  BY <1>1, <1>2, <1>3 DEF EarnedBy, RunFits, Fits

\* A run whose model's record has the passes marks it compatible.
LEMMA WillMarkFits ==
  ASSUME Inv, Grows, NEW p \in Runners, run[p].pc # "idle",
         CcProbes \subseteq earned'[run[p].model],
         run' = [run EXCEPT ![p].pc = "mark"]
  PROVE  RunsTyped' /\ RunsFit'
<1> DEFINE t == [run[p] EXCEPT !.pc = "mark"]
<1>1. t \in Runs /\ t.pc = "mark" /\ t.model = run[p].model /\ t.probe = run[p].probe
  BY RunFacts DEF Runs
<1>2. run' = [run EXCEPT ![p] = t] /\ run[p].probe # 0
  BY RunFacts DEF TaskFits
<1> HIDE DEF t
<1>3. TaskFits(t, earned', promoted', proven')
  BY <1>1, <1>2 DEF TaskFits
<1> QED
  BY <1>1, <1>2, <1>3, RunFacts, RunStep

\* So does one that concludes on a record with passes that were earned.
LEMMA RunConcludes ==
  ASSUME Inv, Grows, NEW p \in Runners, run[p].pc # "idle", NEW r,
         r.passed \subseteq earned'[run[p].model], Concludes(p, r)
  PROVE  RunsTyped' /\ RunsFit'
BY RunEnds, WillMarkFits DEF Concludes

-----------------------------------------------------------------------------
(* The worker *)

LEMMA Stutters ==
  ASSUME Inv, UNCHANGED vars PROVE Inv'
<1>1. Grows
  BY DEF Grows, vars, past
<1> QED
  BY <1>1, CarryOver
     DEF Inv, TypeOK, vars, registry, round, past, RunsFit, RunFits

LEMMA RefreshKeepsInv ==
  ASSUME Inv, NEW list \in Lists, Refresh(list) PROVE Inv'
<1>1. Grows
  BY DEF Grows, Refresh, past
<1>2. ASSUME NEW m \in Models
      PROVE  /\ EarnedBy(m, merged'.models[m])
             /\ Fits(merged'.models[m], earned'[m], m \in promoted', m \in proven')
  <2>1. EarnedBy(m, models[m])
    BY DEF Inv, RegistryFits
  <2>2. merged'.models[m] = Merge(m, models[m], list)
    BY DEF Refresh
  <2>3. Fits(merged'.models[m], earned[m], m \in promoted, m \in proven)
    BY <2>1, <2>2, MergeFits DEF EarnedBy
  <2> QED
    BY <2>3 DEF EarnedBy, Refresh, past
<1>3. /\ merged'.older = older
      /\ merged'.models = [m \in Models |-> Merge(m, models[m], list)]
      /\ merged' = [models |-> merged'.models, older |-> merged'.older]
  BY DEF Refresh
<1>4. merged'.models \in [Models -> Record]
  BY <1>2, <1>3 DEF Fits
<1>5. merged' \in [models : [Models -> Record], older : SUBSET (Models \X Models)]
  BY <1>3, <1>4 DEF Inv, TypeOK
<1>6. CopyFits'
  BY <1>2, <1>3 DEF CopyFits, EarnedBy, Asymmetric, Inv, TypeOK
<1>7. TypeOK'
  BY <1>5 DEF Inv, TypeOK, Refresh, registry, past
<1> QED
  BY <1>1, <1>6, <1>7, CarryOver DEF Inv, Refresh, registry, past, RunsFit

LEMMA NewRecordFits ==
  ASSUME NEW e, NEW c, NEW q PROVE Fits(NewRecord, e, c, q)
<1>1. Quorum \in Nat /\ Threshold \in Nat /\ CandidateFailures \in Nat
  BY NumbersAssumption
<1>2. NewRecord \in Record
  BY <1>1 DEF NewRecord, Record, States
<1> QED
  BY <1>2 DEF Fits, FlagsAgree, Deserved, NewRecord, Published

LEMMA StoreKeepsInv ==
  ASSUME Inv, Store PROVE Inv'
<1>1. Grows
  BY DEF Grows, Store, past
<1>2. merged' = [models |-> [m \in Models |-> NewRecord], older |-> {}]
  BY DEF Store, NothingMerged
<1>3. CopyFits'
  BY <1>2, NewRecordFits DEF CopyFits, EarnedBy, Asymmetric
<1>4. \A m \in Models : NewRecord \in Record
  BY NewRecordFits DEF Fits
<1>5. merged' \in [models : [Models -> Record], older : SUBSET (Models \X Models)]
  BY <1>2, <1>4
<1>6. RegistryFits'
  BY DEF Inv, CopyFits, RegistryFits, EarnedBy, Store, past
<1>7. TypeOK'
  BY <1>5 DEF Inv, TypeOK, CopyFits, Asymmetric, Store, past
<1> QED
  BY <1>1, <1>3, <1>6, <1>7, CarryOver DEF Inv, Store, past, RunsFit

LEMMA PlanKeepsInv ==
  ASSUME Inv, Plan PROVE Inv'
<1>1. Grows
  BY DEF Grows, Plan, past
<1>2. TypeOK'
  BY DEF Inv, TypeOK, Plan, registry, past, Batches, PublishedModels, Candidates
<1> QED
  BY <1>1, <1>2, CarryOver DEF Inv, Plan, registry, past, RunsFit

LEMMA RestKeepsInv ==
  ASSUME Inv, Rest PROVE Inv'
<1>1. Grows
  BY DEF Grows, Rest, past
<1>2. TypeOK'
  BY DEF Inv, TypeOK, Rest, registry, past
<1> QED
  BY <1>1, <1>2, CarryOver DEF Inv, Rest, registry, past, RunsFit

LEMMA BeginFits ==
  ASSUME Inv, Grows, NEW p \in Runners, NEW m \in Models,
         NEW kind \in {"matrix", "availability"}, Begin(p, m, kind)
  PROVE  RunsTyped' /\ RunsFit'
<1> DEFINE t == [NoRun EXCEPT !.pc = "ensure", !.model = m, !.kind = kind]
<1>1. t \in Runs /\ t.pc = "ensure" /\ t.model = m /\ t.probe = 1
  BY DEF NoRun, Runs, Outcomes, States
<1>2. run' = [run EXCEPT ![p] = t]
  BY DEF Begin
<1> HIDE DEF t
<1>3. TaskFits(t, earned', promoted', proven')
  BY <1>1 DEF TaskFits
<1> QED
  BY <1>1, <1>2, <1>3, RunStep

LEMMA TakeKeepsInv ==
  ASSUME Inv, NEW m \in Models, Take(m) PROVE Inv'
<1>1. Grows
  BY DEF Grows, Take, past
<1>2. RunsTyped' /\ RunsFit'
  BY <1>1, BeginFits DEF Take, Runners
<1>3. batch' \in [published : SUBSET Models, candidates : SUBSET Models]
  BY DEF Inv, TypeOK, Take
<1>4. TypeOK'
  BY <1>2, <1>3 DEF Inv, TypeOK, RunsTyped, Take, registry, past
<1> QED
  BY <1>1, <1>2, <1>4, CarryOver DEF Inv, Take, registry, past

-----------------------------------------------------------------------------
(* A probe run *)

LEMMA EnsureKeepsInv ==
  ASSUME Inv, NEW p \in Runners, Ensure(p) PROVE Inv'
<1>1. Grows /\ run[p].pc # "idle" /\ run[p].pc = "ensure"
  BY DEF Grows, Ensure, past
<1>2. RunsTyped' /\ RunsFit'
  <2>1. CASE Concludes(p, Of(p))
    <3>1. Of(p).passed \subseteq earned'[run[p].model]
      BY <1>1, RunFacts DEF Fits, Ensure, past
    <3> QED
      BY <1>1, <2>1, <3>1, RunConcludes
  <2>2. CASE Ends(p)
    BY <1>1, <2>2, RunEnds
  <2>3. CASE /\ ~(run[p].kind = "matrix" /\ run[p].probe > Len(RequiredProbes))
             /\ run' = [run EXCEPT ![p].pc = "start",
                                   ![p].original = IF run[p].kind = "availability"
                                                   THEN Of(p).state ELSE @]
    <3> DEFINE o == IF run[p].kind = "availability" THEN Of(p).state ELSE run[p].original
               t == [run[p] EXCEPT !.pc = "start", !.original = o]
    <3>1. o \in States
      BY <1>1, RunFacts DEF Record, Runs
    <3>2. /\ t \in Runs /\ t.pc = "start" /\ t.model = run[p].model
          /\ t.kind = run[p].kind /\ t.probe = run[p].probe /\ t.original = o
      <4> HIDE DEF o
      <4> QED
        BY <1>1, <3>1, RunFacts DEF Runs
    <3>3. run' = [run EXCEPT ![p] = t]
      BY <1>1, <2>3, RunFacts
    <3>4. t.kind = "availability" =>
            Deserved(t.original, earned[t.model], t.model \in promoted, t.model \in proven)
      BY <1>1, <3>2, RunFacts DEF Fits
    <3>5. t.kind # "availability" => t.probe \in DOMAIN RequiredProbes
      <4> HIDE DEF t
      <4>1. run[p].kind \in {"matrix", "availability"} /\ run[p].probe \in Nat
            /\ run[p].probe # 0
        BY <1>1, RunFacts DEF Runs, TaskFits
      <4>2. Len(RequiredProbes) \in Nat /\ DOMAIN RequiredProbes = 1 .. Len(RequiredProbes)
        BY ProbesAssumption
      <4> QED
        BY <2>3, <3>2, <4>1, <4>2
    <3> HIDE DEF t
    <3>6. TaskFits(t, earned', promoted', proven')
      <4>1. earned' = earned /\ promoted' = promoted /\ proven' = proven
        BY DEF Ensure, past
      <4>2. t.probe # 0
        BY <1>1, <3>2, RunFacts DEF TaskFits
      <4> QED
        BY <3>2, <3>4, <3>5, <4>1, <4>2 DEF TaskFits
    <3> QED
      BY <1>1, <3>2, <3>3, <3>6, RunFacts, RunStep
  <2> QED
    BY <2>1, <2>2, <2>3 DEF Ensure
<1>3. TypeOK'
  BY <1>2 DEF Inv, TypeOK, RunsTyped, Ensure, registry, round, past
<1> QED
  BY <1>1, <1>2, <1>3, CarryOver DEF Inv, Ensure, registry, round, past

\* A run that moves on within the states that need the same of it.
LEMMA RunAdvances ==
  ASSUME Inv, Grows, NEW p \in Runners, NEW pc, NEW outcome \in Outcomes,
         run[p].pc \in {"start", "asking", "record"}, pc \in {"asking", "record"},
         run' = [run EXCEPT ![p].pc = pc, ![p].outcome = outcome]
  PROVE  RunsTyped' /\ RunsFit'
<1> DEFINE t == [run[p] EXCEPT !.pc = pc, !.outcome = outcome]
<1>1. run[p].pc # "idle"
  OBVIOUS
<1>2. /\ t \in Runs /\ t.pc = pc /\ t.model = run[p].model
      /\ t.kind = run[p].kind /\ t.probe = run[p].probe /\ t.original = run[p].original
  BY <1>1, RunFacts DEF Runs
<1>3. run' = [run EXCEPT ![p] = t]
  BY <1>1, RunFacts
<1> HIDE DEF t
<1>4. TaskFits(t, earned', promoted', proven')
  <2>1. /\ earned[t.model] \subseteq earned'[t.model]
        /\ t.model \in promoted => t.model \in promoted'
        /\ t.model \in proven => t.model \in proven'
    BY <1>1, <1>2, RunFacts DEF Grows
  <2>2. \A s : Deserved(s, earned[t.model], t.model \in promoted, t.model \in proven)
          => Deserved(s, earned'[t.model], t.model \in promoted', t.model \in proven')
    BY <2>1 DEF Deserved
  <2> QED
    BY <1>1, <1>2, <2>2, RunFacts DEF TaskFits
<1> QED
  BY <1>1, <1>2, <1>3, <1>4, RunFacts, RunStep

LEMMA StartKeepsInv ==
  ASSUME Inv, NEW p \in Runners, Start(p) PROVE Inv'
<1>1. Grows /\ run[p].pc # "idle" /\ run[p].pc = "start"
  BY DEF Grows, Start
<1>2. RunsTyped' /\ RunsFit'
  <2>1. run[p].outcome \in Outcomes
    BY <1>1, RunFacts DEF Runs
  <2>2. run' = [run EXCEPT ![p].pc = "asking", ![p].outcome = run[p].outcome]
    BY <1>1, RunFacts DEF Start, Runs
  <2> QED
    BY <1>1, <2>1, <2>2, RunAdvances
<1>3. models' \in [Models -> Record] /\ RegistryFits'
  <2>1. models' = [models EXCEPT ![run[p].model] = Started(Of(p))]
    BY DEF Start, Of
  <2>2. Fits(Started(Of(p)), earned'[run[p].model], run[p].model \in promoted',
             run[p].model \in proven')
    BY <1>1, RunFacts, StartedFits DEF Start
  <2> QED
    BY <1>1, <2>1, <2>2, RunFacts, ModelStep
<1>4. older' \subseteq Models \X Models /\ Asymmetric(older')
  BY <1>1, RunFacts, TouchOrders DEF Start
<1>5. TypeOK'
  BY <1>2, <1>3, <1>4 DEF Inv, TypeOK, RunsTyped, Asymmetric, Start, round
<1> QED
  BY <1>1, <1>2, <1>3, <1>5, CarryOver DEF Inv, Start, round

LEMMA AnswerKeepsInv ==
  ASSUME Inv, NEW p \in Runners, NEW outcome \in Outcomes, Answer(p, outcome)
  PROVE  Inv'
<1>1. Grows /\ run[p].pc # "idle" /\ run[p].pc = "asking"
  BY DEF Grows, Answer, past
<1>2. RunsTyped' /\ RunsFit'
  <2>1. CASE Ends(p)
    BY <1>1, <2>1, RunEnds
  <2>2. CASE run' = [run EXCEPT ![p].pc = "record", ![p].outcome = outcome]
    BY <1>1, <2>2, RunAdvances
  <2> QED
    BY <2>1, <2>2 DEF Answer
<1>3. TypeOK'
  BY <1>2 DEF Inv, TypeOK, RunsTyped, Answer, registry, round, past
<1> QED
  BY <1>1, <1>2, <1>3, CarryOver DEF Inv, Answer, registry, round, past

\* A run is about to set a state the model deserves.
LEMMA WillSetFits ==
  ASSUME Inv, Grows, NEW p \in Runners, run[p].pc # "idle", NEW s \in States,
         Deserved(s, earned'[run[p].model], run[p].model \in promoted',
                  run[p].model \in proven'),
         WillSet(p, s)
  PROVE  RunsTyped' /\ RunsFit'
<1> DEFINE t == [run[p] EXCEPT !.pc = "set", !.target = s]
<1>1. /\ t \in Runs /\ t.pc = "set" /\ t.model = run[p].model
      /\ t.probe = run[p].probe /\ t.target = s
  BY RunFacts DEF Runs
<1>2. run' = [run EXCEPT ![p] = t]
  BY RunFacts DEF WillSet
<1>3. run[p].probe # 0
  BY RunFacts DEF TaskFits
<1> HIDE DEF t
<1>4. TaskFits(t, earned', promoted', proven')
  BY <1>1, <1>3 DEF TaskFits
<1> QED
  BY <1>1, <1>2, <1>4, RunFacts, RunStep

LEMMA RecordPassKeepsInv ==
  ASSUME Inv, NEW p \in Runners, RecordPass(p) PROVE Inv'
<1> DEFINE m == run[p].model
           r == Passed(Of(p), Probe(p))
           probe == Probe(p)
<1>1. run[p].pc # "idle" /\ run[p].pc = "record"
  BY DEF RecordPass
<1>2. probe \in Probes
  BY <1>1, RunFacts DEF TaskFits, Probes, Matrix, Probe
<1>3. /\ m \in Models /\ earned \in [Models -> SUBSET Probes]
      /\ earned' = [earned EXCEPT ![m] = earned[m] \cup {probe}]
      /\ promoted' = promoted /\ proven' = proven
  BY <1>1, RunFacts DEF RecordPass, Inv, TypeOK
<1>4. Grows
  BY <1>3 DEF Grows
<1>5. earned'[m] = earned[m] \cup {probe} /\ earned' \in [Models -> SUBSET Probes]
  BY <1>2, <1>3
<1>6. Fits(r, earned'[m], m \in promoted', m \in proven') /\ r.state = Of(p).state
  <2>1. Fits(Of(p), earned[m], m \in promoted, m \in proven)
    BY <1>1, RunFacts
  <2>2. /\ Fits(r, earned[m] \cup {probe}, m \in promoted, m \in proven)
        /\ r.state = Of(p).state
    BY <1>2, <2>1, PassedFits
  <2> QED
    BY <1>3, <1>5, <2>2
<1>7. models' \in [Models -> Record] /\ RegistryFits'
  <2>1. models' = [models EXCEPT ![m] = r]
    BY DEF RecordPass
  <2> QED
    BY <1>3, <1>4, <1>6, <2>1, ModelStep
<1>8. RunsTyped' /\ RunsFit'
  <2>1. CASE run[p].kind = "availability" /\ WillSet(p, run[p].original)
    <3>1. run[p].original \in States
      BY <1>1, RunFacts DEF Runs
    <3>2. Deserved(run[p].original, earned[m], m \in promoted, m \in proven)
      BY <1>1, <2>1, RunFacts DEF TaskFits
    <3>3. Deserved(run[p].original, earned'[m], m \in promoted', m \in proven')
      BY <1>3, <1>5, <3>2 DEF Deserved
    <3> QED
      BY <1>1, <1>4, <2>1, <3>1, <3>3, WillSetFits
  <2>2. CASE Concludes(p, r)
    <3>1. r.passed \subseteq earned'[m]
      BY <1>6 DEF Fits
    <3> QED
      BY <1>1, <1>4, <2>2, <3>1, RunConcludes
  <2>3. CASE Complete(r) /\ WillSet(p, "Canary")
    <3>1. "Canary" \in States /\ Deserved("Canary", earned'[m], m \in promoted', m \in proven')
      BY <1>6, <2>3 DEF Complete, Fits, Deserved, States
    <3> QED
      BY <1>1, <1>4, <2>3, <3>1, WillSetFits
  <2>4. CASE run' = [run EXCEPT ![p].pc = "ensure", ![p].probe = @ + 1]
    <3> DEFINE t == [run[p] EXCEPT !.pc = "ensure", !.probe = run[p].probe + 1]
    <3>1. run[p].probe \in Nat /\ run[p].probe + 1 \in Nat
      BY <1>1, RunFacts DEF Runs
    <3>2. t \in Runs /\ t.pc = "ensure" /\ t.model = m /\ t.probe = run[p].probe + 1
      BY <1>1, <3>1, RunFacts DEF Runs
    <3>3. run' = [run EXCEPT ![p] = t]
      BY <1>1, <2>4, RunFacts
    <3> HIDE DEF t
    <3>4. TaskFits(t, earned', promoted', proven')
      BY <3>1, <3>2 DEF TaskFits
    <3> QED
      BY <1>3, <1>4, <3>2, <3>3, <3>4, RunStep
  <2> QED
    BY <2>1, <2>2, <2>3, <2>4 DEF RecordPass
<1>9. older' \subseteq Models \X Models /\ Asymmetric(older')
  BY <1>3, TouchOrders DEF RecordPass
<1>10. TypeOK'
  BY <1>5, <1>7, <1>8, <1>9 DEF Inv, TypeOK, RunsTyped, Asymmetric, RecordPass, round
<1> QED
  BY <1>4, <1>7, <1>8, <1>10, CarryOver DEF Inv, RecordPass, round

LEMMA RecordFailureKeepsInv ==
  ASSUME Inv, NEW p \in Runners, RecordFailure(p) PROVE Inv'
<1> DEFINE m == run[p].model
           r == Failed(Of(p))
<1>1. Grows /\ run[p].pc # "idle"
  BY DEF Grows, RecordFailure, past
<1>2. m \in Models /\ earned' = earned /\ promoted' = promoted /\ proven' = proven
  BY <1>1, RunFacts DEF RecordFailure, past
<1>3. Fits(r, earned'[m], m \in promoted', m \in proven')
  BY <1>1, <1>2, RunFacts, FailedFits
<1>4. models' \in [Models -> Record] /\ RegistryFits'
  <2>1. models' = [models EXCEPT ![m] = r]
    BY DEF RecordFailure
  <2> QED
    BY <1>1, <1>2, <1>3, <2>1, ModelStep
<1>5. RunsTyped' /\ RunsFit'
  <2>1. CASE \E s \in {"Quarantined", "Candidate"} : WillSet(p, s)
    <3>1. \A s \in {"Quarantined", "Candidate"} :
            s \in States /\ Deserved(s, earned'[m], m \in promoted', m \in proven')
      BY DEF States, Deserved, Published
    <3> QED
      BY <1>1, <2>1, <3>1, WillSetFits
  <2>2. CASE Concludes(p, r)
    <3>1. r.passed \subseteq earned'[m]
      BY <1>3 DEF Fits
    <3> QED
      BY <1>1, <2>2, <3>1, RunConcludes
  <2> QED
    BY <2>1, <2>2 DEF RecordFailure
<1>6. older' \subseteq Models \X Models /\ Asymmetric(older')
  BY <1>2, TouchOrders DEF RecordFailure
<1>7. TypeOK'
  BY <1>4, <1>5, <1>6 DEF Inv, TypeOK, RunsTyped, Asymmetric, RecordFailure, round, past
<1> QED
  BY <1>1, <1>4, <1>5, <1>7, CarryOver DEF Inv, RecordFailure, round, past

LEMMA SetKeepsInv ==
  ASSUME Inv, NEW p \in Runners, Set(p) PROVE Inv'
<1> DEFINE m == run[p].model
           r == SetState(Of(p), run[p].target)
<1>1. Grows /\ run[p].pc # "idle" /\ run[p].pc = "set"
  BY DEF Grows, Set, past
<1>2. m \in Models /\ earned' = earned /\ promoted' = promoted /\ proven' = proven
  BY <1>1, RunFacts DEF Set, past
<1>3. Fits(r, earned'[m], m \in promoted', m \in proven')
  <2>1. run[p].target \in States
        /\ Deserved(run[p].target, earned[m], m \in promoted, m \in proven)
    BY <1>1, RunFacts DEF Runs, TaskFits
  <2> QED
    BY <1>1, <1>2, <2>1, RunFacts, SetStateFits
<1>4. models' \in [Models -> Record] /\ RegistryFits'
  <2>1. models' = [models EXCEPT ![m] = r]
    BY DEF Set
  <2> QED
    BY <1>1, <1>2, <1>3, <2>1, ModelStep
<1>5. RunsTyped' /\ RunsFit'
  <2>1. CASE Concludes(p, r)
    <3>1. r.passed \subseteq earned'[m]
      BY <1>3 DEF Fits
    <3> QED
      BY <1>1, <2>1, <3>1, RunConcludes
  <2>2. CASE r.compatible /\ run' = [run EXCEPT ![p].pc = "mark"]
    <3>1. CcProbes \subseteq earned'[m]
      BY <1>3, <2>2 DEF Fits
    <3> QED
      BY <1>1, <2>2, <3>1, WillMarkFits
  <2>3. CASE Ends(p)
    BY <1>1, <2>3, RunEnds
  <2> QED
    BY <2>1, <2>2, <2>3 DEF Set
<1>6. TypeOK'
  BY <1>4, <1>5 DEF Inv, TypeOK, RunsTyped, Set, round, past
<1> QED
  BY <1>1, <1>4, <1>5, <1>6, CarryOver DEF Inv, Set, round, past

LEMMA MarkKeepsInv ==
  ASSUME Inv, NEW p \in Runners, Mark(p) PROVE Inv'
<1> DEFINE m == run[p].model
           r == [Of(p) EXCEPT !.compatible = @ \/ Of(p).state \in Published]
<1>1. Grows /\ run[p].pc # "idle" /\ run[p].pc = "mark"
  BY DEF Grows, Mark, past
<1>2. m \in Models /\ earned' = earned /\ promoted' = promoted /\ proven' = proven
  BY <1>1, RunFacts DEF Mark, past
<1>3. Fits(r, earned'[m], m \in promoted', m \in proven')
  <2>1. CcProbes \subseteq earned[m]
    BY <1>1, RunFacts DEF TaskFits
  <2> QED
    BY <1>1, <1>2, <2>1, RunFacts, MarkedFits
<1>4. models' \in [Models -> Record] /\ RegistryFits'
  <2>1. models' = [models EXCEPT ![m] = r]
    BY DEF Mark, Of
  <2> QED
    BY <1>1, <1>2, <1>3, <2>1, ModelStep
<1>5. RunsTyped' /\ RunsFit'
  BY <1>1, RunEnds DEF Mark
<1>6. TypeOK'
  BY <1>4, <1>5 DEF Inv, TypeOK, RunsTyped, Mark, round, past
<1> QED
  BY <1>1, <1>4, <1>5, <1>6, CarryOver DEF Inv, Mark, round, past

-----------------------------------------------------------------------------
(* Administrators and clients *)

LEMMA CountedIntervention ==
  ASSUME Inv, Intervenes PROVE interventions' \in 0 .. MaxInterventions
BY NumbersAssumption DEF Inv, TypeOK, Intervenes

LEMMA AdminProbeKeepsInv ==
  ASSUME Inv, NEW p \in Operators, NEW m \in Models, AdminProbe(p, m) PROVE Inv'
<1>1. Grows
  BY DEF Grows, AdminProbe, past
<1>2. RunsTyped' /\ RunsFit'
  BY <1>1, BeginFits DEF AdminProbe, Runners
<1>3. TypeOK'
  BY <1>2, CountedIntervention DEF Inv, TypeOK, RunsTyped, AdminProbe, registry, round, past
<1> QED
  BY <1>1, <1>2, <1>3, CarryOver DEF Inv, AdminProbe, registry, round, past

\* An administrator sets a state the model deserves by the end of the step.
LEMMA AdminSetsFits ==
  ASSUME Inv, Grows, NEW m \in Models, NEW s \in States, AdminSets(m, s),
         Deserved(s, earned'[m], m \in promoted', m \in proven'),
         deciding' \subseteq deciding, promoted' \subseteq Models,
         demoted' \subseteq Models
  PROVE  Inv'
<1>1. Fits(models[m], earned[m], m \in promoted, m \in proven)
  BY DEF Inv, RegistryFits, EarnedBy
<1>2. Fits(models[m], earned'[m], m \in promoted', m \in proven')
  <2>1. /\ earned[m] \subseteq earned'[m]
        /\ m \in promoted => m \in promoted'
        /\ m \in proven => m \in proven'
    BY DEF Grows
  <2> QED
    BY <1>1, <2>1 DEF Fits, Deserved
<1>3. Fits(SetState(models[m], s), earned'[m], m \in promoted', m \in proven')
  BY <1>2, SetStateFits
<1>4. models' \in [Models -> Record] /\ RegistryFits'
  <2>1. models' = [models EXCEPT ![m] = SetState(models[m], s)]
    BY DEF AdminSets
  <2> QED
    BY <1>3, <2>1, ModelStep
<1>5. TypeOK'
  BY <1>4, CountedIntervention DEF Inv, TypeOK, AdminSets, round
<1> QED
  BY <1>4, <1>5, CarryOver DEF Inv, AdminSets, round, RunsFit

LEMMA PromoteCanaryKeepsInv ==
  ASSUME Inv, NEW m \in Models, PromoteCanary(m) PROVE Inv'
<1>1. Grows
  BY DEF Grows, PromoteCanary, AdminSets
<1>2. "Canary" \in States /\ Deserved("Canary", earned'[m], m \in promoted', m \in proven')
  BY DEF States, Deserved, PromoteCanary
<1> QED
  BY <1>1, <1>2, AdminSetsFits DEF PromoteCanary, Inv, TypeOK

LEMMA DecideActiveKeepsInv ==
  ASSUME Inv, NEW m \in Models, DecideActive(m) PROVE Inv'
<1>1. Grows
  BY DEF Grows, DecideActive
<1>2. Fits(models[m], earned[m], m \in promoted, m \in proven) /\ models[m].state = "Canary"
  BY DEF Inv, RegistryFits, EarnedBy, DecideActive, Eligible
<1>3. May(m, "Active")'
  BY <1>2 DEF Fits, May, Deserved, DecideActive, Published
<1>4. DecisionsFit'
  <2>1. \A n \in deciding : May(n, "Active")'
    BY <1>1, CarryOver DEF Inv, TypeOK, DecisionsFit
  <2> QED
    BY <1>3, <2>1 DEF DecisionsFit, DecideActive
<1>5. TypeOK'
  BY DEF Inv, TypeOK, DecideActive, registry, round
<1> QED
  BY <1>1, <1>4, <1>5, CarryOver DEF Inv, DecideActive, registry, round, RunsFit

LEMMA PromoteActiveKeepsInv ==
  ASSUME Inv, NEW m \in Models, PromoteActive(m) PROVE Inv'
<1>1. Grows
  BY DEF Grows, PromoteActive, AdminSets
<1>2. May(m, "Active")'
  BY <1>1, CarryOver DEF Inv, DecisionsFit, PromoteActive
<1>3. "Active" \in States /\ Deserved("Active", earned'[m], m \in promoted', m \in proven')
  BY <1>2 DEF States, May
<1> QED
  BY <1>1, <1>3, AdminSetsFits DEF PromoteActive, Inv, TypeOK

LEMMA HidingKeepsInv ==
  ASSUME Inv, NEW m \in Models, Demote(m) \/ Quarantine(m) PROVE Inv'
<1>1. Grows
  BY DEF Grows, Demote, Quarantine, AdminSets
<1>2. \A s \in {"Candidate", "Quarantined"} :
        s \in States /\ Deserved(s, earned'[m], m \in promoted', m \in proven')
  BY DEF States, Deserved, Published
<1>3. CASE Demote(m)
  BY <1>1, <1>2, <1>3, AdminSetsFits DEF Demote, Inv, TypeOK
<1>4. CASE Quarantine(m)
  BY <1>1, <1>2, <1>4, AdminSetsFits DEF Quarantine, Inv, TypeOK
<1> QED
  BY <1>3, <1>4

LEMMA TrafficKeepsInv ==
  ASSUME Inv, NEW m \in Models, NEW result, Traffic(m, result) PROVE Inv'
<1>1. Grows /\ earned' = earned /\ promoted' = promoted /\ proven' = proven
  BY DEF Grows, Traffic, past
<1>2. Fits(models[m], earned[m], m \in promoted, m \in proven)
  BY DEF Inv, RegistryFits, EarnedBy
<1>3. Fits(Counted(models[m], result), earned'[m], m \in promoted', m \in proven')
  BY <1>1, <1>2, CountedFits
<1>4. models' \in [Models -> Record] /\ RegistryFits'
  <2>1. models' = [models EXCEPT ![m] = Counted(models[m], result)]
    BY DEF Traffic
  <2> QED
    BY <1>1, <1>3, <2>1, ModelStep
<1>5. TypeOK'
  BY <1>4, CountedIntervention DEF Inv, TypeOK, Traffic, round, past
<1> QED
  BY <1>1, <1>4, <1>5, CarryOver DEF Inv, Traffic, round, past, RunsFit

-----------------------------------------------------------------------------
(* The theorems *)

LEMMA InitFits == Init => Inv
<1> SUFFICES ASSUME Init PROVE Inv
  OBVIOUS
<1>1. RegistryFits
  BY NewRecordFits DEF Init, RegistryFits, EarnedBy
<1>2. CopyFits
  BY NewRecordFits DEF Init, NothingMerged, CopyFits, EarnedBy, Asymmetric
<1>3. RunsFit /\ DecisionsFit
  BY DEF Init, RunsFit, RunFits, TaskFits, NoRun, DecisionsFit
<1>4. \A m \in Models : NewRecord \in Record
  BY NewRecordFits DEF Fits
<1>5. NothingMerged \in [models : [Models -> Record], older : SUBSET (Models \X Models)]
  BY <1>4 DEF NothingMerged
<1>6. NoRun \in Runs
  BY DEF NoRun, Runs, Outcomes, States
<1>7. EmptyBatch \in [published : SUBSET Models, candidates : SUBSET Models]
  BY DEF EmptyBatch
<1>8. TypeOK
  BY <1>4, <1>5, <1>6, <1>7, NumbersAssumption DEF Init, TypeOK, NoRun
<1> QED
  BY <1>1, <1>2, <1>3, <1>8 DEF Inv

LEMMA NextKeepsInv == Inv /\ [Next]_vars => Inv'
<1> SUFFICES ASSUME Inv, [Next]_vars PROVE Inv'
  OBVIOUS
<1>1. CASE UNCHANGED vars
  BY <1>1, Stutters
<1>2. CASE \E list \in Lists : Refresh(list)
  BY <1>2, RefreshKeepsInv
<1>3. CASE Works
  BY <1>3, StoreKeepsInv, PlanKeepsInv, RestKeepsInv, TakeKeepsInv DEF Works
<1>4. CASE \E p \in Runners : Proceeds(p)
  BY <1>4, EnsureKeepsInv, StartKeepsInv, AnswerKeepsInv, RecordPassKeepsInv,
     RecordFailureKeepsInv, SetKeepsInv, MarkKeepsInv DEF Proceeds
<1>5. CASE \E m \in Operated : Administers(m)
  BY <1>5, SetsAssumption, AdminProbeKeepsInv, PromoteCanaryKeepsInv,
     DecideActiveKeepsInv, PromoteActiveKeepsInv, HidingKeepsInv DEF Administers
<1>6. CASE \E m \in Served, result \in {"ok", "other", "fatal"} : Traffic(m, result)
  BY <1>6, SetsAssumption, TrafficKeepsInv
<1> QED
  BY <1>1, <1>2, <1>3, <1>4, <1>5, <1>6 DEF Next

\* The inductive invariant holds in every reachable state: besides the registry,
\* the copy a refresh is about to store, the state every run is about to set and
\* every pending promotion are covered by what the model has earned.
THEOREM DiscoveryInvariant == Spec => []Inv
<1>1. Init => Inv
  BY InitFits
<1>2. Inv /\ [Next]_vars => Inv'
  BY NextKeepsInv
<1> QED
  BY <1>1, <1>2, PTL DEF Spec

\* The registry, the runs and the worker's round keep their types; in particular
\* last_probe_unix stays an order and the counters stay in their ranges.
THEOREM DiscoveryTypeCorrect == Spec => []TypeOK
<1>1. Inv => TypeOK
  BY DEF Inv
<1> QED
  BY <1>1, DiscoveryInvariant, PTL

\* Whatever handlers interleave, a model is public exactly while published, every
\* candidate may be picked for a probe, and only published models are compatible.
THEOREM DiscoveryFlagsAgree == Spec => []FlagsFollowState
<1>1. Inv => FlagsFollowState
  BY DEF Inv, RegistryFits, EarnedBy, Fits, FlagsFollowState
<1> QED
  BY <1>1, DiscoveryInvariant, PTL

\* However stale copies, late results and decisions overwrite each other, no model
\* is published, active or ClaudeCode-compatible without having earned it.
THEOREM DiscoveryExposureIsEarned == Spec => []ExposureIsEarned
<1>1. Inv => ExposureIsEarned
  BY DEF Inv, RegistryFits, EarnedBy, Fits, ExposureIsEarned
<1> QED
  BY <1>1, DiscoveryInvariant, PTL
=============================================================================
