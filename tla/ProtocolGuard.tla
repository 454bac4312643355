---------------------------- MODULE ProtocolGuard ----------------------------
(***************************************************************************)
(* protocol_guard.rs: every request body passes the guard before and after *)
(* the context governor.  It looks for tool calls and results that do not  *)
(* belong together, repairs them where its mode says so, and refuses a     *)
(* body that is still broken the second time.                              *)
(*                                                                         *)
(* A body is [ms, tools]: the messages, and whether it offers tools        *)
(* ("none", "valid", or "invalid" when a schema is malformed).  Synthetic  *)
(* ids are off: Config::from_env forces that in the mode that runs the     *)
(* kernel, so a call without an id is never repaired here.                 *)
(***************************************************************************)
EXTENDS Conversation
LOCAL INSTANCE SequencesExt
LOCAL INSTANCE FiniteSetsExt

CONSTANTS
  GuardMode,   \* protocol_guard_mode: "off", "observe", "repair" or "strict"
  OrphanPolicy \* protocol_guard_orphan_policy: "downgrade" or "reject"

ASSUME GuardAssumption ==
  /\ GuardMode \in {"off", "observe", "repair", "strict"}
  /\ OrphanPolicy \in {"downgrade", "reject"}

Downgrades == OrphanPolicy = "downgrade"

-------------------------------------------------------------------------------
(* OpenAI bodies: results follow the message that makes the calls *)

InvalidOpenai(body) == ~HistoryPaired(body.ms)

GuardPolicy == [synthetic |-> FALSE, lenient |-> FALSE, downgrade |-> Downgrades]

RepairOpenai(body) == [body EXCEPT !.ms = PairHistory(GuardPolicy, body.ms)]

-------------------------------------------------------------------------------
(* Anthropic bodies: a result may come any time after its call *)

NamedParts(ms, k, id) == {p \in OfKind(ms, k) : Part(ms, p).id = id}

InvalidAnthropicTools(body) == body.tools = "invalid"

InvalidAnthropic(body) ==
  LET calls   == OfKind(body.ms, "use")
      results == OfKind(body.ms, "result")
      ids     == {Part(body.ms, p).id : p \in calls \cup results}
  IN  \/ InvalidAnthropicTools(body)
      \/ NoId \in ids
      \/ \E id \in ids :
           \/ Cardinality(NamedParts(body.ms, "use", id)) # Cardinality(NamedParts(body.ms, "result", id))
           \/ \E p \in NamedParts(body.ms, "result", id) :
                Cardinality({q \in NamedParts(body.ms, "use", id) : Before(q, p)})
                  < Cardinality({q \in NamedParts(body.ms, "result", id) : q = p \/ Before(q, p)})

\* A block of the walk: a call with an id waits from here on, a result takes
\* a waiting call or becomes plain text.  Nothing ends the wait.
RepairBlock(walk, p) ==
  LET part == Part(walk.ms, p)
      n    == AnsweredBy(walk.pending, part.id, FALSE)
  IN  CASE part.k = "use" /\ part.id # NoId ->
             [walk EXCEPT !.pending = Append(@, Waiting(part.id, p[1]))]
        [] part.k = "result" /\ n # 0 ->
             [ms      |-> [walk.ms EXCEPT ![p[1]].parts[p[2]].id = walk.pending[n].id],
              pending |-> [walk.pending EXCEPT ![n].used = TRUE]]
        [] part.k = "result" /\ n = 0 /\ Downgrades ->
             [walk EXCEPT !.ms[p[1]].parts[p[2]] = AsText(part)]
        [] OTHER -> walk

DowngradeUnresolvedUses(ms, pending) ==
  [i \in DOMAIN ms |->
    LET lost == {pending[n].id : n \in {m \in Unused(pending) : pending[m].at = i}}
    IN  [ms[i] EXCEPT !.parts =
          [j \in DOMAIN @ |-> IF @[j].k = "use" /\ @[j].id \in lost THEN Note ELSE @[j]]]]

RepairAnthropic(body) ==
  LET walk == FoldLeft(RepairBlock, [ms |-> body.ms, pending |-> <<>>], Places(body.ms))
  IN  [ms    |-> DowngradeUnresolvedUses(walk.ms, walk.pending),
       tools |-> IF InvalidAnthropicTools(body) THEN "valid" ELSE body.tools]

-------------------------------------------------------------------------------
(* The guard *)

Invalid(path, body) == IF path = "messages" THEN InvalidAnthropic(body) ELSE InvalidOpenai(body)

Repair(path, body) == IF path = "messages" THEN RepairAnthropic(body) ELSE RepairOpenai(body)

\* body_has_tool_shape: an Anthropic body that offers tools is looked at,
\* an OpenAI body only when its history holds a call or a result.
HasToolShape(path, body) ==
  \/ path = "messages" /\ body.tools # "none"
  \/ OfKind(body.ms, "use") \cup OfKind(body.ms, "result") # {}

Looked(path, body, forced) == GuardMode # "off" /\ (forced \/ HasToolShape(path, body))

\* What the guard makes of a body, and whether it found it invalid before
\* and after.
Guarded(path, body, forced) ==
  LET looked == Looked(path, body, forced)
      after  == IF looked /\ GuardMode = "repair" THEN Repair(path, body) ELSE body
  IN  [body       |-> after,
       applied    |-> looked /\ (forced \/ Invalid(path, body)),
       preInvalid |-> looked /\ Invalid(path, body),
       postValid  |-> looked => ~Invalid(path, after)]

Refused(guarded, phase) ==
  \/ phase = "postCompact" /\ ~guarded.postValid /\ GuardMode \in {"repair", "strict"}
  \/ GuardMode = "strict" /\ guarded.preInvalid
===============================================================================
