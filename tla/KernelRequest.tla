---------------------------- MODULE KernelRequest ----------------------------
(***************************************************************************)
(* What becomes of a request before it goes upstream.  zen-proxy-rs guards *)
(* its history, governs its size and guards it again (v4/provider.rs);     *)
(* the kernel translates it, shortens it, adds the user's instruction,     *)
(* makes calls and results belong together (handle_anthropic_messages,     *)
(* handle_openai_chat) and chooses who answers.                            *)
(***************************************************************************)
EXTENDS ProtocolGuard, ContextGovernor, KernelHistory, KernelState

CONSTANTS
  Requests,   \* the requests there may be: [req, ms, tools]
  HugeBuffer  \* CLAUDE_CODE_HUGE_BUFFER_MIN_INPUT_TOKENS

ASSUME HugeBufferAssumption == HugeBuffer \in Nat

ASSUME RequestsAssumption ==
  \A r \in Requests : r.req.path \in {"messages", "chat"} /\ r.tools \in {"none", "valid", "invalid"}

Init ==
  /\ \E r \in Requests :
       /\ req = r.req
       /\ prep = [ms |-> r.ms, tools |-> r.tools, forced |-> FALSE, before |-> 0, compacted |-> FALSE,
                  reduced |-> FALSE, exact |-> FALSE, risky |-> FALSE, mode |-> "none"]
  /\ stage = "guard" /\ gen = FreshGen /\ wire = FreshWire

Body == [ms |-> prep.ms, tools |-> prep.tools]

HasHistory(ms) == OfKind(ms, "use") \cup OfKind(ms, "result") # {}

\* raw_body_has_tool_markers
RawMarkers == prep.tools # "none" \/ HasHistory(prep.ms)

Proceed(next, p) == stage' = next /\ prep' = p /\ UNCHANGED <<req, gen, wire>>

Reject ==
  /\ gen' = [gen EXCEPT !.out = <<Ended("error")>>]
  /\ stage' = "done"
  /\ UNCHANGED <<req, prep, wire>>

-------------------------------------------------------------------------------
(* The proxy: forward_v4_request *)

GuardBefore ==
  /\ At("guard")
  /\ LET guarded == Guarded(req.path, Body, RawMarkers)
     IN  \/ Refused(guarded, "preCompact") /\ Reject
         \/ /\ ~Refused(guarded, "preCompact")
            /\ Proceed("govern", [prep EXCEPT !.ms = guarded.body.ms, !.tools = guarded.body.tools,
                                              !.forced = guarded.applied \/ guarded.preInvalid])

Govern ==
  /\ At("govern")
  /\ LET governed == Governed(req.path, prep.ms, req.exempt)
     IN  \/ governed.refused /\ Reject
         \/ /\ ~governed.refused
            /\ Proceed("guardAgain", [prep EXCEPT !.ms = governed.ms, !.forced = @ \/ governed.trimmed])

GuardAfter ==
  /\ At("guardAgain")
  /\ LET guarded == Guarded(req.path, Body, prep.forced)
     IN  \/ Refused(guarded, "postCompact") /\ Reject
         \/ /\ ~Refused(guarded, "postCompact")
            /\ Proceed("translate", [prep EXCEPT !.ms = guarded.body.ms, !.tools = guarded.body.tools])

-------------------------------------------------------------------------------
(* The kernel *)

Translate ==
  /\ At("translate")
  /\ Proceed("shorten", [prep EXCEPT !.ms = IF req.path = "messages" THEN AnthropicToOpenai(@) ELSE @])

Shortest(ms) ==
  IF req.exempt THEN [ms |-> ms, n |-> 0]
  ELSE IF req.cc THEN CompactHugeSession(ms)
  ELSE IF req.stream THEN CompactContext(ms, StreamPolicy) ELSE [ms |-> ms, n |-> 0]

ShortenContext ==
  /\ At("shorten")
  /\ Proceed("anchor", [prep EXCEPT !.ms = Shortest(prep.ms).ms, !.compacted = Shortest(prep.ms).n > 0,
                                    !.before = PromptTokens(prep.ms)])

\* After shortening Claude Code's instruction is said again, or is all that
\* is left.
AnchorInstruction ==
  /\ At("anchor")
  /\ LET anchors == req.cc /\ prep.compacted
         reduces == anchors /\ req.stream /\ ReducesToExact(prep.ms)
     IN  Proceed("canonicalize",
           [prep EXCEPT !.ms = IF reduces THEN ReduceToExact(@) ELSE IF anchors THEN AppendAnchor(@) ELSE @,
                        !.tools = IF reduces THEN "none" ELSE @, !.reduced = reduces])

\* A result became plain text, or a call was dropped.
Downgraded(before, after) ==
  \/ Cardinality(OfKind(after, "result")) < Cardinality(OfKind(before, "result"))
  \/ Cardinality(OfKind(after, "use")) < Cardinality(OfKind(before, "use"))

Canonicalize ==
  /\ At("canonicalize")
  /\ LET ms == CanonicalizeToolHistory(prep.ms)
     IN  Proceed("dispatch", [prep EXCEPT !.ms = ms, !.exact = UserTexts(ms, {"exact"}) # {},
           !.risky = Downgraded(prep.ms, ms) \/ HasHistory(ms) \/ prep.tools = "invalid"])

-------------------------------------------------------------------------------
(* Who answers *)

\* A health probe, and a session that asks for its safe marker, are answered
\* here.
AnsweredHere ==
  \/ req.probe = "health" /\ ~OffersTools
  \/ req.probe = "recovery" /\ req.path = "messages" /\ req.cc /\ req.stream

\* claude_code_buffered_stream_reason
BufferedReason ==
  /\ req.cc /\ ~OffersTools
  /\ prep.reduced \/ prep.exact \/ (req.small /\ prep.before >= HugeBuffer)

Mode ==
  IF ~req.stream THEN "collected"
  ELSE IF req.path = "chat" THEN "openai"
  ELSE IF BufferedReason THEN "collected" ELSE "anthropic"

\* From here on the history is only sent.
Dispatch ==
  /\ At("dispatch")
  /\ IF AnsweredHere
     THEN /\ gen' = [gen EXCEPT !.out = <<Started>> \o Opening(FALSE, "text", 0) \o <<Grown("text", Own(gen), 0)>>
                        \o (IF Framed THEN <<Closed("text", 0)>> ELSE <<>>) \o <<Ended("stop")>>]
          /\ stage' = "done"
          /\ UNCHANGED <<req, prep, wire>>
     ELSE Proceed("fetch", [prep EXCEPT !.ms = <<>>, !.before = 0, !.forced = FALSE, !.compacted = FALSE,
                                        !.reduced = FALSE, !.mode = Mode])

-------------------------------------------------------------------------------
(* The histories that a retry sends instead *)

CompatToolUseRetryBody(ms) == CanonicalizeToolHistory(ms)

FlattenToolHistory(ms) ==
  [i \in DOMAIN ms |->
    CASE ms[i].role = "tool" -> Message("user", <<AsText(ms[i].parts[1])>>)
      [] ms[i].role = "assistant" /\ "use" \in Kinds(ms[i]) ->
           Message("assistant", SelectSeq(ms[i].parts, LAMBDA part : part.k # "use") \o <<Note>>)
      [] OTHER -> ms[i]]

Sendable(ms) == {ms, CompatToolUseRetryBody(ms), FlattenToolHistory(ms)}
===============================================================================
