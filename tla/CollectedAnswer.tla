---------------------------- MODULE CollectedAnswer ----------------------------
(***************************************************************************)
(* The answers that are collected before the client hears of them:         *)
(* handle_non_stream (proxy/anthropic.rs), handle_oa_non_stream            *)
(* (proxy/openai.rs) and handle_buffered_claude_code_huge_stream, which    *)
(* streams a collected answer.  Each makes up to Attempts upstream         *)
(* attempts and keeps the first answer it can use.                         *)
(*                                                                         *)
(* What an attempt brings is a record [text, reasoning, calls] with the    *)
(* kinds of text there are; how it came to its end is "closed", "cut" (the *)
(* stream broke), "truncated" (it ended too early) or "stalled" (nothing   *)
(* to forward for too long).                                               *)
(***************************************************************************)
EXTENDS KernelState

CONSTANT Collections \* the records an attempt may bring

Ends == {"closed", "cut", "truncated", "stalled"}

Buffered  == req.path = "messages" /\ req.stream
Guarded   == req.path = "messages" /\ ~req.stream /\ req.cc

Advance(g) == \* `continue`
  /\ gen'   = IF More(g) THEN [g EXCEPT !.attempt = @ + 1] ELSE g
  /\ stage' = IF More(g) THEN "fetch" ELSE "finish"
  /\ UNCHANGED <<req, prep, wire>>

Break(g) == gen' = g /\ stage' = "finish" /\ UNCHANGED <<req, prep, wire>>

Respond(events) ==
  /\ gen' = [gen EXCEPT !.out = events]
  /\ stage' = "done"
  /\ UNCHANGED <<req, prep, wire>>

Refuse == Respond(<<Ended("error")>>)

\* The buffered loop swallows an error as long as an attempt is left.
Give(g) == IF Buffered /\ More(g) THEN Advance(g) ELSE Refuse

Use(g, tried) == [g EXCEPT !.used = @ \cup tried]

\* last_empty; incomplete arguments are remembered over it.
Empty(g) == [g EXCEPT !.fault = IF @ = "incomplete" THEN @ ELSE "empty"]

-------------------------------------------------------------------------------
FetchSucceeds ==
  /\ At("fetch")
  /\ stage' = "read"
  /\ UNCHANGED <<req, prep, gen, wire>>

FetchFails(error) ==
  /\ At("fetch")
  /\ IF EnrichesFirst(error) THEN Advance(Use(gen, {"missing"}))
     ELSE IF RetryMode(error) # "none" THEN Advance(Use(gen, {RetryMode(error)}))
     ELSE Give(gen)

-------------------------------------------------------------------------------
(* What came of an attempt *)

Output(answer) == answer.text # {} \/ answer.reasoning # {} \/ answer.calls # NoCalls

Leaks(answer) == Leaky(answer.text \cup answer.reasoning)

\* collect_anthropic_non_stream_parts_with_guard and collect_stream_parts:
\* what is kept of the answer, nothing to forward, or an error.
Outcome(answer, end) ==
  IF ~Guarded THEN IF end = "closed" \/ (end = "truncated" /\ Output(answer)) THEN "kept" ELSE "error"
  ELSE IF end = "closed" THEN "kept"
  ELSE IF end = "stalled" THEN "nothing"
  ELSE IF (answer.text # {} /\ answer.calls = NoCalls) \/ Streamable(answer.calls) # {} THEN "kept"
  ELSE IF end = "truncated" THEN "nothing" ELSE "error"

\* How an attempt may end, given what it brought.
Possible(answer, end) ==
  end = "stalled" => Guarded /\ answer.text = {} /\ Streamable(answer.calls) = {}

RepairsAnswer(answer) == answer.calls = NoCalls /\ Repairable(answer.text \cup answer.reasoning)

RepairedAnswer(answer) ==
  IF RepairsAnswer(answer) THEN [answer EXCEPT !.calls = RepairedCall, !.text = {}] ELSE answer

\* collected_visible_text
Visible(answer) ==
  IF answer.text # {} /\ ~Leaky(answer.text) THEN answer.text
  ELSE IF answer.calls = NoCalls /\ ~Leaky(answer.reasoning) THEN answer.reasoning ELSE {}

Unanswered(answer) ==
  req.cc /\ OffersTools /\ answer.calls = NoCalls /\ Unfinished(Visible(answer))

OnlyIncompleteCalls(answer) ==
  req.path = "messages" /\ Visible(answer) = {} /\ OnlyIncomplete(answer.calls)

-------------------------------------------------------------------------------
(* The response *)

EmittedCalls(answer) ==
  IF req.path # "messages" THEN DOMAIN answer.calls
  ELSE IF req.cc THEN Deduplicated(answer.calls, Streamable(answer.calls))
  ELSE Streamable(answer.calls)

\* Only the buffered stream shows the text that comes with calls.
TextEvents(answer) ==
  IF Visible(answer) = {} \/ (answer.calls # NoCalls /\ ~Buffered) THEN <<>>
  ELSE Opening(FALSE, "text", 0) \o <<Grown("text", Visible(answer), 0)>>
         \o IF Framed THEN <<Closed("text", 0)>> ELSE <<>>

CallEvents(answer) ==
  InOrder([gen EXCEPT !.calls = answer.calls, !.next = IF TextEvents(answer) = <<>> THEN 0 ELSE 1],
          EmittedCalls(answer))

\* cut: the stream broke, or the upstream stopped for its length.
StopOf(answer, cut) ==
  IF EmittedCalls(answer) # {} THEN "tool_use"
  ELSE IF cut \/ Unanswered(answer) THEN "length" ELSE "stop"

Answer(answer, cut) ==
  IF answer.calls # NoCalls /\ EmittedCalls(answer) = {} /\ ~Buffered THEN Refuse
  ELSE Respond(<<Started>> \o TextEvents(answer) \o CallEvents(answer) \o <<Ended(StopOf(answer, cut))>>)

OwnAnswer == Answer([text |-> Own(gen), reasoning |-> {}, calls |-> NoCalls], FALSE)

-------------------------------------------------------------------------------
(* The checks of a kept answer, in the order they are made *)

Judge(original, cut) ==
  LET answer == RepairedAnswer(original)
      leaks  == answer.calls = NoCalls /\ Leaks(answer)
      empty  == Visible(answer) = {} /\ answer.calls = NoCalls
  IN  \/ leaks /\ (IF Buffered THEN Give(gen) ELSE Advance(Empty(gen)))
      \/ ~leaks /\ Unanswered(answer) /\ More(gen) /\ Advance(Use(Empty(gen), {"reasoning"}))
      \/ /\ ~leaks /\ ~(Unanswered(answer) /\ More(gen)) /\ empty
         /\ IF Buffered /\ (req.probe = "short" \/ (prep.exact /\ ~More(gen)))
            THEN OwnAnswer ELSE Advance(Empty(gen))
      \/ /\ ~leaks /\ ~empty /\ OnlyIncompleteCalls(answer)
         /\ IF Buffered /\ ~More(gen) /\ "reasoning" \in gen.used THEN Refuse
            ELSE Advance(Use([gen EXCEPT !.fault = "incomplete"], IF req.cc THEN {"reasoning"} ELSE {}))
      \/ /\ ~leaks /\ ~empty /\ ~OnlyIncompleteCalls(answer) /\ ~(Unanswered(answer) /\ More(gen))
         /\ Answer(answer, cut)

\* mimo_internal_probe_empty_fallback_text
MimoProbe == req.path = "messages" /\ req.probe = "mimo" /\ ~OffersTools

\* Nothing to forward: a call is repaired, reasoning is shown, a probe of the
\* model's vendor is answered here, else one more attempt is made, once.
NothingForwarded(answer) ==
  IF RepairsAnswer(answer) \/ (answer.reasoning # {} /\ ~Leaks(answer)) THEN Judge(answer, FALSE)
  ELSE IF MimoProbe THEN OwnAnswer
  ELSE IF "stream" \in gen.used THEN Break(Empty(gen))
  ELSE Advance(Use(Empty(gen), {"stream"}))

Tagged(kinds) == {Piece(kind, gen.attempt) : kind \in kinds}

Brought(answer) == [answer EXCEPT !.text = Tagged(@), !.reasoning = Tagged(@)]

\* The upstream's finish reason comes with a stream that is closed.
Collect(collected, end, finish) ==
  /\ At("read") /\ Possible(Brought(collected), end)
  /\ LET answer == Brought(collected)
         cut    == IF end = "closed" THEN finish = "length" ELSE Guarded
     IN
     CASE Outcome(answer, end) = "kept"    -> Judge(answer, cut)
       [] Outcome(answer, end) = "nothing" -> NothingForwarded(answer)
       [] Outcome(answer, end) = "error"   -> Give(gen)

\* No attempt brought an answer: a probe gets a short one anyway.
Exhausted ==
  /\ At("finish")
  /\ LET probed == req.probe = "short" \/ MimoProbe \/ (req.path = "messages" /\ req.cc /\ req.probe = "low")
     IN  IF ~Buffered /\ gen.fault = "empty" /\ probed THEN OwnAnswer ELSE Refuse
===============================================================================
