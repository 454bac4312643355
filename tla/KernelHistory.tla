---------------------------- MODULE KernelHistory ----------------------------
(***************************************************************************)
(* protocol/translate.rs: the history of the request that the kernel sends *)
(* upstream.  An Anthropic conversation is translated to OpenAI messages;  *)
(* a context that is too large is shortened (and, for Claude Code, sorted  *)
(* by what looks like its last instruction); then the tool calls and       *)
(* results that are left are made to belong together.                      *)
(***************************************************************************)
EXTENDS Conversation, Integers
LOCAL INSTANCE SequencesExt
LOCAL INSTANCE FiniteSetsExt

CONSTANTS
  StreamPolicy,  \* StreamContextPolicy::default
  HugePolicy,    \* StreamContextPolicy::claude_code_huge_context
  MidSizedAt,    \* compact_at_tokens of a mid-sized tool history
  MidMessages,   \* MIN_MESSAGES
  MidLargest,    \* MIN_LARGEST_MESSAGE_TOKENS
  MidLatestUser, \* MAX_LATEST_USER_TOKENS
  FoldTokens,    \* MIN_TOKENS_TO_FOLD
  FoldMessages,  \* MIN_MESSAGES_TO_FOLD
  FoldKeeps      \* RECENT_MESSAGES_TO_KEEP

Policies == [at: Nat, target: Nat, min: Nat \ {0}, systems: BOOLEAN, anchors: BOOLEAN, sanitizes: BOOLEAN]

ASSUME PolicyAssumption == StreamPolicy \in Policies /\ HugePolicy \in Policies
ASSUME FoldAssumption ==
  {MidSizedAt, MidMessages, MidLargest, MidLatestUser, FoldTokens, FoldMessages, FoldKeeps} \subseteq Nat \ {0}

-------------------------------------------------------------------------------
(* anthropic_to_openai_messages: the system prompt is the first message of *)
(* the conversation already.                                               *)

UserMessages(parts) ==
  LET results == SelectSeq(parts, LAMBDA part : part.k = "result")
      texts   == SelectSeq(parts, LAMBDA part : part.k = "text")
  IN  [n \in DOMAIN results |-> Message("tool", <<results[n]>>)]
        \o IF texts = <<>> THEN <<>> ELSE <<Message("user", texts)>>

AssistantMessage(parts) ==
  Message("assistant", SelectSeq(parts, LAMBDA part : part.k = "text")
                         \o SelectSeq(parts, LAMBDA part : part.k = "use"))

AnthropicToOpenai(ms) ==
  FlattenSeq([i \in DOMAIN ms |->
    CASE ms[i].role = "assistant" -> <<AssistantMessage(ms[i].parts)>>
      [] ms[i].role = "user"      -> UserMessages(ms[i].parts)
      [] OTHER                    -> <<ms[i]>>])

-------------------------------------------------------------------------------
(* compact_stream_context_with_policy *)

PromptTokens(ms) ==
  FoldLeft(LAMBDA sum, p : sum + IF Part(ms, p).k = "use" THEN 0 ELSE Part(ms, p).size, 0, Places(ms))

LatestUserAt(ms) == LET users == {i \in DOMAIN ms : ms[i].role = "user"} IN IF users = {} THEN 0 ELSE Max(users)

\* The lines about earlier sessions are taken out of a text: all of it, if
\* it is of that kind.
Sanitized(ms) ==
  [i \in DOMAIN ms |-> [ms[i] EXCEPT !.parts =
    [j \in DOMAIN @ |-> IF @[j].mark = "pressure" THEN Note ELSE @[j]]]]

Anchored(ms, policy, p) ==
  /\ policy.anchors
  /\ ms[p[1]].role = "user"
  /\ p[1] = LatestUserAt(ms) \/ Part(ms, p).mark \in {"explicit", "exact"}
  /\ Part(ms, p).mark # "pressure"

Priority(ms, policy, p) ==
  CASE Anchored(ms, policy, p)    -> 3
    [] ms[p[1]].role = "system"   -> 0
    [] p[1] = LatestUserAt(ms)    -> 2
    [] OTHER                      -> 1

Candidates(ms, policy) ==
  {p \in OfKind(ms, "text") \cup OfKind(ms, "result") :
     /\ Part(ms, p).size >= policy.min
     /\ ms[p[1]].role = "system" => policy.systems}

ShortenedFirst(ms, policy, p, q) ==
  LET a == Priority(ms, policy, p)  b == Priority(ms, policy, q)
  IN  \/ a < b
      \/ a = b /\ Part(ms, p).size > Part(ms, q).size
      \/ a = b /\ Part(ms, p).size = Part(ms, q).size /\ Before(p, q)

Shorten(policy, state, p) ==
  LET size == Part(state.ms, p).size
      keep == Max({size - state.over, policy.min})
  IN  IF state.over = 0 \/ keep >= size THEN state
      ELSE [ms   |-> [state.ms EXCEPT ![p[1]].parts[p[2]].size = keep],
            over |-> Max({0, state.over - (size - keep)}),
            n    |-> state.n + 1]

\* What the messages become, and how many were shortened.
CompactContext(ms, policy) ==
  LET clean == IF policy.sanitizes THEN Sanitized(ms) ELSE ms
      order == SetToSortSeq(Candidates(clean, policy), LAMBDA p, q : ShortenedFirst(clean, policy, p, q))
      start == [ms   |-> clean,
                over |-> Max({0, PromptTokens(clean) - policy.target}),
                n    |-> Cardinality({i \in DOMAIN ms : clean[i] # ms[i]})]
      done  == FoldLeft(LAMBDA state, p : Shorten(policy, state, p), start, order)
  IN  IF PromptTokens(ms) < policy.at THEN [ms |-> ms, n |-> 0] ELSE [ms |-> done.ms, n |-> done.n]

-------------------------------------------------------------------------------
(* compact_claude_code_huge_session_context *)

TokensOf(message) == PromptTokens(<<message>>)

MidSizedPressure(ms) ==
  /\ Len(ms) >= MidMessages
  /\ PromptTokens(ms) >= MidSizedAt
  /\ \E i \in DOMAIN ms : ms[i].role # "system" /\ TokensOf(ms[i]) >= MidLargest
  /\ LatestUserAt(ms) # 0 => TokensOf(ms[LatestUserAt(ms)]) <= MidLatestUser

\* Everything but the system's and the most recent messages becomes one
\* message; it is taken for an earlier session's by what reads it later.
Summary == Message("user", <<Text(0, 1, "pressure")>>)

FoldHistory(ms) ==
  LET recent == Len(ms) - FoldKeeps
      system == SelectSeq(ms, LAMBDA m : m.role = "system")
      place  == [i \in DOMAIN ms |-> [at |-> i, m |-> ms[i]]]
      kept   == SelectSeq(place, LAMBDA x : x.m.role # "system" /\ x.at > recent)
      folded == {i \in DOMAIN ms : ms[i].role # "system" /\ i <= recent}
  IN  [ms |-> system \o (IF folded = {} THEN <<>> ELSE <<Summary>>) \o [n \in DOMAIN kept |-> kept[n].m],
       n  |-> Cardinality(folded)]

CompactHugeSession(ms) ==
  LET mid    == MidSizedPressure(ms)
      policy == IF mid THEN [HugePolicy EXCEPT !.at = MidSizedAt] ELSE HugePolicy
      base   == CompactContext(ms, policy)
      folds  == /\ PromptTokens(ms) >= FoldTokens
                /\ \/ Len(ms) >= FoldMessages
                   \/ PromptTokens(base.ms) > 3 * HugePolicy.target
                   \/ mid /\ Len(ms) > FoldKeeps
      fold   == FoldHistory(base.ms)
  IN  IF folds THEN [ms |-> fold.ms, n |-> base.n + fold.n] ELSE base

-------------------------------------------------------------------------------
(* The user's latest instruction, for Claude Code *)

UserTexts(ms, marks) ==
  {p \in OfKind(ms, "text") : ms[p[1]].role = "user" /\ Part(ms, p).mark \in marks}

LastPlace(places) == CHOOSE p \in places : \A q \in places : q = p \/ Before(q, p)

\* select_active_user_anchor: the last text that says it is the instruction,
\* however old; else the last that is not about an earlier session.
ActiveAnchor(ms) ==
  LET explicit == UserTexts(ms, {"explicit", "exact"})
      plain    == UserTexts(ms, {"plain"})
  IN  IF explicit # {} THEN {Part(ms, LastPlace(explicit))}
      ELSE IF plain # {} THEN {Part(ms, LastPlace(plain))} ELSE {}

AppendAnchor(ms) ==
  IF ActiveAnchor(ms) = {} THEN ms
  ELSE LET said == CHOOSE part \in ActiveAnchor(ms) : TRUE
       IN  Append(ms, Message("user", <<[said EXCEPT !.size = 1]>>))

ReducesToExact(ms) == \E part \in ActiveAnchor(ms) : part.mark = "exact"

ReduceToExact(ms) ==
  <<Message("user", <<[(CHOOSE part \in ActiveAnchor(ms) : TRUE) EXCEPT !.size = 1]>>)>>

-------------------------------------------------------------------------------
(* canonicalize_openai_tool_history_with_policy *)

\* Every call gets the id of its place, and every result the new id of the
\* last call before it that had the result's.
StabilizeIds(ms) ==
  LET named(p) == {q \in OfKind(ms, "use") : q[1] < p[1] /\ Part(ms, q).id = Part(ms, p).id}
      id(p)    == CASE Part(ms, p).k = "use" -> SyntheticId(p)
                    [] Part(ms, p).k = "result" /\ named(p) # {} -> SyntheticId(LastPlace(named(p)))
                    [] OTHER -> Part(ms, p).id
  IN  [i \in DOMAIN ms |-> [ms[i] EXCEPT !.parts =
        [j \in DOMAIN @ |-> [@[j] EXCEPT !.id = id(<<i, j>>)]]]]

KernelPolicy == [synthetic |-> TRUE, lenient |-> TRUE, downgrade |-> TRUE]

\* Mutant of CanonicalizeToolHistory: gives ids without pairing first.
CanonicalizeUnpaired(ms) == StabilizeIds(ms)

CanonicalizeToolHistory(ms) == StabilizeIds(PairHistory(KernelPolicy, ms))
===============================================================================
