--------------------------- MODULE ContextGovernor ---------------------------
(***************************************************************************)
(* context.rs: a request that is too large for the upstream is made        *)
(* smaller, oldest content first, or refused.  Old tool results are        *)
(* trimmed, then old large texts, then the oldest messages are replaced by *)
(* one note; where that cut falls depends on the calls and results that it *)
(* would separate.                                                         *)
(*                                                                         *)
(* The size of a part stands for its bytes and for its tokens; the calls   *)
(* of an OpenAI message have bytes but no estimated tokens.                *)
(***************************************************************************)
EXTENDS Conversation, Integers
LOCAL INSTANCE SequencesExt
LOCAL INSTANCE FiniteSetsExt

CONSTANTS
  CompactorMode,  \* "off", "observe" or "enforce"
  CompactBytes,   \* context_compact_body_mb
  CompactTokens,  \* context_token_compact
  TargetBytes,    \* target_body_bytes
  TargetTokens,   \* context_token_target
  UpstreamLimit,  \* context_upstream_body_limit_mb
  Chunk,          \* context_large_chunk_bytes
  PreserveRecent  \* context_preserve_recent_messages

ASSUME GovernorAssumption ==
  /\ CompactorMode \in {"off", "observe", "enforce"}
  /\ {CompactBytes, CompactTokens, TargetBytes, TargetTokens, UpstreamLimit, Chunk,
      PreserveRecent} \subseteq Nat \ {0}

SizeOf(parts) == FoldLeft(LAMBDA sum, part : sum + part.size, 0, parts)

AllParts(ms) == FlattenSeq([i \in DOMAIN ms |-> ms[i].parts])

Bytes(ms) == SizeOf(AllParts(ms))

Tokens(path, ms) ==
  SizeOf(SelectSeq(AllParts(ms), LAMBDA part : path = "messages" \/ part.k # "use"))

ShouldCompact(path, ms) == Bytes(ms) >= CompactBytes \/ Tokens(path, ms) >= CompactTokens

RoleIndexes(ms, role) == {i \in DOMAIN ms : ms[i].role = role}

LatestUser(ms) ==
  IF RoleIndexes(ms, "user") = {} THEN Len(ms) + 1 ELSE Max(RoleIndexes(ms, "user"))

\* Only messages before the latest of the user's are trimmed, and none of
\* the system's.
Trimmed(ms, kinds, threshold) ==
  [i \in DOMAIN ms |->
    IF i >= LatestUser(ms) \/ ms[i].role = "system" THEN ms[i]
    ELSE [ms[i] EXCEPT !.parts =
           [j \in DOMAIN @ |-> IF @[j].k \in kinds /\ @[j].size > threshold
                               THEN [@[j] EXCEPT !.size = 1] ELSE @[j]]]]

CompactOldToolResults(ms) == Trimmed(ms, {"result"}, Chunk)

CompactOldLargeText(ms) == Trimmed(ms, {"text", "result"}, 2 * Chunk)

-------------------------------------------------------------------------------
(* The cut.  `at` is how many of the oldest messages go. *)

ResultIds(ms, at, roles) ==
  {Part(ms, p).id : p \in {q \in OfKind(ms, "result") : q[1] > at /\ ms[q[1]].role \in roles}} \ {NoId}

CallsIn(ms, i, ids) == \E part \in ToSet(ms[i].parts) : part.k = "use" /\ part.id \in ids

CutBefore(ms, at, ids) == Min({at} \cup {i - 1 : i \in {n \in 1..at : CallsIn(ms, n, ids)}})

OpenaiSplit(ms, at) == CutBefore(ms, at, ResultIds(ms, at, {"tool"}))

AnthropicSplit(ms, at) == CutBefore(ms, at, ResultIds(ms, at, {"user", "assistant", "system"}))

PairAwareSplit(ms, at) == AnthropicSplit(ms, OpenaiSplit(ms, at))

IsSystem(message) == message.role = "system"

CollapseOldPrefix(ms) ==
  LET at      == PairAwareSplit(ms, Len(ms) - PreserveRecent)
      systems == SelectSeq(SubSeq(ms, 1, at), IsSystem)
      omitted == IF Len(systems) < at THEN <<Message("user", <<Note>>)>> ELSE <<>>
  IN  IF Len(ms) <= PreserveRecent + 2 \/ at = 0 THEN ms
      ELSE systems \o omitted \o SubSeq(ms, at + 1, Len(ms))

-------------------------------------------------------------------------------
(* govern_request *)

\* What is left after the steps that were needed.
Compacted(path, ms) ==
  LET a == CompactOldToolResults(ms)
      b == IF Bytes(a) > TargetBytes \/ Tokens(path, a) > TargetTokens THEN CompactOldLargeText(a) ELSE a
  IN  IF Bytes(b) > TargetBytes THEN CollapseOldPrefix(b) ELSE b

TooLarge(path, ms) == Bytes(ms) > UpstreamLimit \/ Tokens(path, ms) > TargetTokens

\* What becomes of a request for a model that is `exempt` from compaction or
\* not: the messages, whether they were trimmed, whether it is refused.
Governed(path, ms, exempt) ==
  LET acts  == CompactorMode = "enforce" /\ ~exempt /\ ShouldCompact(path, ms)
      after == IF acts THEN Compacted(path, ms) ELSE ms
  IN  [ms |-> after, trimmed |-> Bytes(after) < Bytes(ms), refused |-> acts /\ TooLarge(path, after)]
===============================================================================
