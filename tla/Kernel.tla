-------------------------------- MODULE Kernel --------------------------------
(***************************************************************************)
(* One request through the proxy's guards and the kernel, to the end of    *)
(* its answer.  The answer is given by one of three handlers, which share  *)
(* the state of the request.                                               *)
(***************************************************************************)
EXTENDS KernelRequest

CONSTANT Collections

ASSUME CollectionsAssumption ==
  \A answer \in Collections :
    /\ DOMAIN answer = {"text", "reasoning", "calls"}
    /\ IsFiniteSet(DOMAIN answer.calls) /\ DOMAIN answer.calls \subseteq Nat
    /\ \A index \in DOMAIN answer.calls : answer.calls[index] \in {delta[2] : delta \in Deltas}

A == INSTANCE AnthropicStream
O == INSTANCE OpenAiStream
C == INSTANCE CollectedAnswer

InMode(mode) == prep.mode = mode

Finishes == {"stop", "length"}

AnswerAnthropic ==
  /\ InMode("anthropic")
  /\ \/ A!FetchSucceeds \/ A!Stall \/ A!StreamFails \/ A!Settle
     \/ \E error \in Errors : A!FetchFails(error)
     \/ \E kind \in ContentKinds : A!Content(kind)
     \/ \E kind \in ReasoningKinds : A!Reasoning(kind)
     \/ \E delta \in Deltas : A!ToolDelta(delta)
     \/ \E finish \in Finishes : A!StreamEnds(finish)
     \/ \E long \in BOOLEAN : A!End(long)

AnswerOpenai ==
  /\ InMode("openai")
  /\ \/ O!FetchSucceeds \/ O!StreamFails \/ O!Settle \/ O!End
     \/ \E error \in Errors : O!FetchFails(error)
     \/ \E kind \in ContentKinds : O!Content(kind)
     \/ \E kind \in ReasoningKinds : O!Reasoning(kind)
     \/ \E delta \in Deltas : O!ToolDelta(delta)
     \/ \E finish \in Finishes : O!StreamEnds(finish)

AnswerCollected ==
  /\ InMode("collected")
  /\ \/ C!FetchSucceeds \/ C!Exhausted
     \/ \E error \in Errors : C!FetchFails(error)
     \/ \E answer \in Collections, end \in C!Ends, finish \in Finishes : C!Collect(answer, end, finish)

Work ==
  \/ GuardBefore \/ Govern \/ GuardAfter
  \/ Translate \/ ShortenContext \/ AnchorInstruction \/ Canonicalize \/ Dispatch
  \/ AnswerAnthropic \/ AnswerOpenai \/ AnswerCollected
  \/ Deliver

Next == Work \/ HangUp

\* Something is left to do: where Work is enabled.
Busy == stage # "gone" /\ (stage # "done" \/ gen.out # <<>>)

\* The kernel goes on as long as the client is there: every wait for the
\* upstream is bounded by the client's timeout (zen/client.rs).  This is
\* WF_vars(Work) with ENABLED written out, which is dear to evaluate.
Fairness == []<>~Busy \/ []<><<Work>>_vars

Spec == Init /\ [][Next]_vars /\ Fairness

-------------------------------------------------------------------------------
TypeOK ==
  /\ req.path \in {"messages", "chat"}
  /\ stage \in {"guard", "govern", "guardAgain", "translate", "shorten", "anchor", "canonicalize",
                "dispatch", "fetch", "read", "settle", "finish", "done", "gone"}
  /\ prep.tools \in {"none", "valid", "invalid"}
  /\ prep.mode \in {"none", "anthropic", "openai", "collected"}
  /\ gen.attempt \in 0..Attempts - 1 /\ gen.chunks \in 0..MaxChunks
  /\ wire.phase \in {"waiting", "open", "ended"} /\ wire.blocks \in [Blocks -> SUBSET Nat]
  /\ wire.top \in Nat
  /\ wire.stop \in {"none", "stop", "length", "tool_use", "error"}

\* Whatever was cut away, folded or repaired, the history that goes upstream,
\* and each of the bodies a retry may send instead, has every tool call
\* answered right after it and no answer without its call.
HistorySent == stage = "dispatch" => \A ms \in Sendable(prep.ms) : HistoryPaired(ms)

\* The text and the calls of an answer are one attempt's, unless the client
\* had seen reasoning before the attempt was given up.
OneAttempt ==
  wire.thought \/ Cardinality(AttemptsOf(wire.text) \cup {wire.given[n].from : n \in DOMAIN wire.given}) <= 1

\* An Anthropic client gets no call whose arguments are incomplete or would
\* be refused, and Claude Code none twice, even if the attempts differ.
WholeCalls ==
  Framed =>
    /\ \A n \in DOMAIN wire.given : wire.given[n].what \notin {"partial", "bad"}
    /\ req.cc => \A m, n \in DOMAIN wire.given : wire.given[m].what = wire.given[n].what => m = n

\* Claude Code never takes an announcement that it will use a tool for a
\* finished answer.
AnnouncementNotFinal ==
  req.cc /\ OffersTools /\ Unfinished(wire.text) /\ wire.given = <<>> => wire.stop # "stop"

\* Tool markup reaches a client as text only once a call has come.
MarkupWithheld ==
  stage # "gone" /\ Leaky(wire.text) => gen.calls # NoCalls

\* The answer ends, or nobody waits for it.
AnswerEnds == <>(wire.phase = "ended" \/ stage = "gone")

\* The events of the handlers make a message that a client can follow: what
\* grows is open, and a block opens at an index of its own, next to the last
\* one, with the exception that MessageStream names: text that is open may
\* share its index.
ClientStream ==
  INSTANCE MessageStream WITH
    Tries <- 0..Attempts - 1, Whats <- {delta[2] : delta \in Deltas} \cup {"repaired"},
    strict <- req.cc \/ ~Framed, framed <- Framed,
    phase <- wire.phase, starts <- wire.starts, blocks <- wire.blocks, top <- wire.top,
    said <- AttemptsOf(wire.text), given <- wire.given

FollowsMessage == ClientStream!Spec
===============================================================================
