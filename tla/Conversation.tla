----------------------------- MODULE Conversation -----------------------------
(***************************************************************************)
(* The conversation of a request, and the walk that pairs tool results     *)
(* with tool calls.                                                        *)
(*                                                                         *)
(* A message is its role and a sequence of parts: texts, tool calls (use)  *)
(* and tool results.  `id` is what a call is named and what a result says  *)
(* it answers (NoId when it is missing), `of` is what the part is about:   *)
(* the number of the call that a result is the answer to, the number of    *)
(* the client's instruction in a user's text, 0 for a note the program     *)
(* wrote.  `size` stands for its length.                                   *)
(***************************************************************************)
EXTENDS Naturals, Sequences, FiniteSets
LOCAL INSTANCE SequencesExt
LOCAL INSTANCE FiniteSetsExt

NoId == 0

Marks == {"plain", "explicit", "exact", "pressure"}

Text(of, size, mark) == [k |-> "text", id |-> NoId, of |-> of, size |-> size, mark |-> mark]
Use(id, of)          == [k |-> "use", id |-> id, of |-> of, size |-> 1, mark |-> "plain"]
Result(id, of, size) == [k |-> "result", id |-> id, of |-> of, size |-> size, mark |-> "plain"]
Note                 == Text(0, 1, "plain")

Message(role, parts) == [role |-> role, parts |-> parts]

\* What is left of a tool result as plain context.
AsText(part) == Text(part.of, part.size, "plain")

Kinds(message) == {message.parts[j].k : j \in DOMAIN message.parts}

\* The positions <<message, part>> of a conversation, in order.
Places(ms) == FlattenSeq([i \in DOMAIN ms |-> [j \in DOMAIN ms[i].parts |-> <<i, j>>]])
PlaceSet(ms) == UNION {{<<i, j>> : j \in DOMAIN ms[i].parts} : i \in DOMAIN ms}
Part(ms, p) == ms[p[1]].parts[p[2]]
Before(p, q) == p[1] < q[1] \/ (p[1] = q[1] /\ p[2] < q[2])
OfKind(ms, k) == {p \in PlaceSet(ms) : Part(ms, p).k = k}

SyntheticId(p) == 1000 + 10 * p[1] + p[2]

-------------------------------------------------------------------------------
(* Calls that wait for their result *)

Unused(pending) == {n \in DOMAIN pending : ~pending[n].used}

Named(pending, id) == {n \in Unused(pending) : pending[n].id = id}

Waiting(id, at) == [id |-> id, at |-> at, used |-> FALSE]

\* The call that a result answers: the first waiting one of its name; one
\* without a name takes the next that waits, and if `lenient` so does one
\* whose name is unknown.  0 if there is none.
AnsweredBy(pending, id, lenient) ==
  LET named == IF id = NoId THEN {} ELSE Named(pending, id)
      next  == IF id = NoId \/ lenient THEN Unused(pending) ELSE {}
  IN  IF named # {} THEN Min(named) ELSE IF next # {} THEN Min(next) ELSE 0

\* The calls of the messages of `pending` whose result never came are taken
\* out; a message that said nothing else is left with a note.
DropUnanswered(ms, pending) ==
  [i \in DOMAIN ms |->
    LET lost == {pending[n].id : n \in {m \in Unused(pending) : pending[m].at = i}}
        kept == SelectSeq(ms[i].parts, LAMBDA part : part.k # "use" \/ part.id \notin lost \cup {NoId})
    IN  IF lost = {} THEN ms[i]
        ELSE [ms[i] EXCEPT !.parts = IF kept = <<>> THEN <<Note>> ELSE kept]]

\* One step of the walk.  A message that is not a tool's ends the run of
\* results after a call.  How a call without a name gets one, and what
\* becomes of a result that answers nothing, is the walker's policy.
PairPart(policy, walk, p) ==
  LET i      == p[1]
      part   == Part(walk.ms, p)
      fresh  == p[2] = 1 /\ walk.ms[i].role # "tool" /\ Unused(walk.pending) # {}
      ms     == IF fresh THEN DropUnanswered(walk.ms, walk.pending) ELSE walk.ms
      waits  == IF fresh THEN <<>> ELSE walk.pending
      name   == IF part.id = NoId /\ policy.synthetic THEN SyntheticId(p) ELSE part.id
      n      == AnsweredBy(waits, part.id, policy.lenient)
  IN  CASE part.k = "use" /\ walk.ms[i].role = "assistant" ->
             [ms      |-> [ms EXCEPT ![i].parts[p[2]].id = name],
              pending |-> IF name = NoId THEN waits ELSE Append(waits, Waiting(name, i))]
        [] part.k = "result" /\ n # 0 ->
             [ms      |-> [ms EXCEPT ![i].parts[p[2]].id = waits[n].id],
              pending |-> [waits EXCEPT ![n].used = TRUE]]
        [] part.k = "result" /\ n = 0 /\ policy.downgrade ->
             [ms      |-> [ms EXCEPT ![i] = Message("user", <<AsText(part)>>)],
              pending |-> waits]
        [] OTHER -> [ms |-> ms, pending |-> waits]

PairHistory(policy, ms) ==
  LET step(walk, p) == PairPart(policy, walk, p)
      done == FoldLeft(step, [ms |-> ms, pending |-> <<>>], Places(ms))
  IN  DropUnanswered(done.ms, done.pending)

-------------------------------------------------------------------------------
(* What a well-formed history is, said without the walk *)

\* The tool messages that follow message i directly.
ResultsAfter(ms, i) ==
  {r \in i + 1..Len(ms) : \A q \in i + 1..r : ms[q].role = "tool"}

CallsOf(ms, i, id) == {j \in DOMAIN ms[i].parts : ms[i].parts[j].k = "use" /\ ms[i].parts[j].id = id}

\* Every call is answered right after the message that makes it, once, and
\* nothing else is answered.
HistoryPaired(ms) ==
  LET ids == {Part(ms, p).id : p \in OfKind(ms, "use") \cup OfKind(ms, "result")}
  IN  /\ NoId \notin ids
      /\ \A i \in 0..Len(ms) :
           (i = 0 \/ ms[i].role # "tool") =>
             \A id \in ids :
               Cardinality({r \in ResultsAfter(ms, i) : ms[r].parts[1].id = id})
                 = IF i = 0 THEN 0 ELSE Cardinality(CallsOf(ms, i, id))
===============================================================================
