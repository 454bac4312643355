---------------------------- MODULE AnthropicStream ----------------------------
(***************************************************************************)
(* handle_stream of proxy/anthropic.rs: the answer to POST /v1/messages    *)
(* with "stream": true.  Up to Attempts upstream streams are read one      *)
(* after the other; what may be said is said as it arrives, and another    *)
(* attempt is made as long as the client has seen no text.                 *)
(***************************************************************************)
EXTENDS KernelState

Silent(g) == g.text = {} /\ g.calls = NoCalls

\* Mutant of Again: does not count the attempt when it starts over.
AgainUncounted(g) ==
  IF g.started THEN [g EXCEPT !.attempt = @ + 1, !.chunks = 0]
  ELSE [FreshGen EXCEPT !.attempt = g.attempt, !.used = g.used, !.fence = g.fence, !.next = g.next, !.out = g.out]

\* What the top of the loop clears for another attempt: everything but the
\* count of the blocks, unless the message has started.
Again(g) ==
  IF g.started THEN [g EXCEPT !.attempt = @ + 1, !.chunks = 0]
  ELSE [FreshGen EXCEPT !.attempt = g.attempt + 1, !.used = g.used, !.fence = g.fence, !.next = g.next,
                        !.out = g.out]

\* `continue`: after the last attempt it ends the loop.
Retry(g, tried) ==
  LET marked == [g EXCEPT !.used = @ \cup tried]
  IN  /\ gen'   = IF More(g) THEN Again(marked) ELSE marked
      /\ stage' = IF More(g) THEN "fetch" ELSE "finish"
      /\ UNCHANGED <<req, prep, wire>>

Finish(g) == gen' = g /\ stage' = "finish" /\ UNCHANGED <<req, prep, wire>>

\* An error event, and nothing after it.
Fail(g) ==
  /\ gen' = [g EXCEPT !.out = @ \o <<Ended("error")>>]
  /\ stage' = "done"
  /\ UNCHANGED <<req, prep, wire>>

\* The reasoning-enriched body is for the last attempt of a request with
\* tools.
LastChance(g) == IF g.attempt + 2 = Attempts /\ OffersTools THEN {"missing"} ELSE {}

\* Mutant of CanRetryErrorBeforeOutput: looks at the calls only.
CanRetryAfterText(g) == req.cc /\ More(g) /\ g.calls = NoCalls

CanRetryErrorBeforeOutput(g) == req.cc /\ More(g) /\ Silent(g)

-------------------------------------------------------------------------------
FetchSucceeds ==
  /\ At("fetch")
  /\ stage' = "read"
  /\ UNCHANGED <<req, prep, gen, wire>>

Limited(error, g) == req.cc /\ error = "rateLimited" /\ Silent(g) /\ ~g.started

FetchFails(error) ==
  /\ At("fetch")
  /\ LET g == [gen EXCEPT !.fault = "error"]
     IN  \/ Limited(error, g) /\ More(g) /\ Retry(g, {})
         \/ Limited(error, g) /\ ~More(g) /\ Fail(g)
         \/ ~Limited(error, g) /\ EnrichesFirst(error) /\ Retry(g, {"missing"})
         \/ /\ ~Limited(error, g) /\ ~EnrichesFirst(error)
            /\ \/ RetryMode(error) # "none" /\ Retry(g, {RetryMode(error)})
               \/ RetryMode(error) = "none" /\ CanRetryErrorBeforeOutput(g) /\ Retry(g, {})
               \/ RetryMode(error) = "none" /\ ~CanRetryErrorBeforeOutput(g) /\ Finish(g)

-------------------------------------------------------------------------------
(* Events of the upstream stream *)

Reading == At("read") /\ gen.chunks < MaxChunks

Keep(g) == gen' = [g EXCEPT !.chunks = @ + 1] /\ UNCHANGED <<req, stage, prep, wire>>

\* Once a call has come the text is not looked at any more.
Content(kind) ==
  /\ Reading
  /\ LET piece == Piece(kind, gen.attempt)
         g     == [gen EXCEPT !.fence = @ \/ (~req.cc /\ kind = "fence")]
     IN  IF g.calls = NoCalls THEN Keep(Pushed(Guarding(g, piece), Released(g.hold, piece)))
         ELSE Keep(Pushed(g, {piece}))

Reasoning(kind) ==
  /\ Reading
  /\ LET piece == Piece(kind, gen.attempt)
     IN  Keep(Think(GuardingReasoning(gen, piece), Released(gen.rhold, piece)))

ToolDelta(delta) ==
  /\ Reading
  /\ MayFollow(gen.calls, delta[1])
  /\ Keep([gen EXCEPT !.calls = Merged(@, delta[1], delta[2])])

\* Nothing that could be forwarded for too long: the stream is given up.
Stall ==
  /\ At("read")
  /\ req.cc /\ More(gen) /\ Silent(gen) /\ gen.held = {}
  /\ Retry(gen, LastChance(gen))

StreamFails ==
  /\ At("read")
  /\ LET g == [gen EXCEPT !.fault = "error"]
     IN  IF CanRetryErrorBeforeOutput(g) THEN Retry(g, LastChance(g)) ELSE Finish(g)

\* The stream is complete: what was held back is let go.
StreamEnds(finish) ==
  /\ At("read")
  /\ gen' = LET g == Drained([gen EXCEPT !.finish = finish])
            IN  Think(Pushed(g, Flushed(gen.hold)), Flushed(gen.rhold))
  /\ stage' = "settle"
  /\ UNCHANGED <<req, prep, wire>>

-------------------------------------------------------------------------------
(* What a complete stream is good for *)

\* The block of text, if there is one, is forgotten without a stop.
Repaired(g) ==
  [g EXCEPT !.calls = RepairedCall, !.leaked = FALSE, !.textOpen = FALSE,
            !.text = {}, !.held = {}, !.hold = {}, !.rhold = {}, !.blob = {}]

RetriesLeak(g) == ~Repairs(g) /\ Leaking(g) /\ ~g.started /\ req.cc /\ More(g)

AfterLeak(g) ==
  IF Repairs(g) THEN Repaired(g)
  ELSE IF Leaking(g) THEN [g EXCEPT !.fault = "markup"] ELSE g

\* should_retry_unfinished_tool_intent
RetriesUnfinished(g) ==
  /\ ~g.thinkOpen /\ ~g.textOpen
  /\ req.cc /\ More(g) /\ OffersTools
  /\ g.calls = NoCalls /\ Unfinished(g.text \cup g.held)

\* No text, and no call that can be given.
Incomplete(g) == g.text = {} /\ OnlyIncomplete(g.calls)

\* should_retry_stream_completed_reasoning_only
RetriesReasoning(g) == req.cc /\ More(g) /\ Silent(g) /\ g.reasoning # {} /\ req.probe # "short"

Settle ==
  /\ At("settle")
  /\ LET g == AfterLeak(gen)
     IN  \/ /\ RetriesLeak(gen)
            /\ Retry(gen, {"compat"})
         \/ /\ ~RetriesLeak(gen) /\ RetriesUnfinished(g)
            /\ Retry([g EXCEPT !.text = {}, !.held = {}, !.reasoning = {}], {"missing"})
         \/ /\ ~RetriesLeak(gen) /\ ~RetriesUnfinished(g)
            /\ \/ /\ Incomplete(g) /\ req.cc /\ More(g)
                  /\ Retry([g EXCEPT !.calls = NoCalls], LastChance(g))
               \/ /\ Incomplete(g) /\ ~(req.cc /\ More(g))
                  /\ Finish([g EXCEPT !.fault = "incomplete"])
               \/ /\ ~Incomplete(g) /\ RetriesReasoning(g)
                  /\ Retry([g EXCEPT !.reasoning = {}, !.thinkOpen = FALSE], {"missing"})
               \/ ~Incomplete(g) /\ ~RetriesReasoning(g) /\ Finish(g)

-------------------------------------------------------------------------------
(* The end of the message *)

Broken(g) == g.fault # "none" /\ (Leaking(g) \/ g.calls # NoCalls)

\* Mutant of Shortened: does not look at announcements.
ShortenedByFaults(g) == g.fault # "none" /\ g.text # {} /\ ~g.leaked /\ ~Leaky(g.text)

\* Text after an error, or an announcement without its call, is cut off.
Shortened(g) ==
  \/ g.fault # "none" /\ g.text # {} /\ ~g.leaked /\ ~Leaky(g.text)
  \/ g.fault = "none" /\ req.cc /\ g.calls = NoCalls /\ OffersTools /\ Unfinished(g.text \cup g.held)

\* MarkdownFenceGuard::finish closes a fence that is open: that the message
\* starts with it is not written down.
CloseFence(g) == IF g.fence THEN [Say(g, Own(g)) EXCEPT !.started = g.started, !.fence = FALSE] ELSE g

Leftover(g) == IF g.fault = "none" THEN [Say(g, g.held) EXCEPT !.held = {}] ELSE g

Bridged(g, long) == IF Bridges(g, long) THEN Say(g, Own(g)) ELSE g

Complete(g) == [Leftover(g) EXCEPT !.finish = IF Shortened(g) THEN "length" ELSE @]

Closings(g) ==
  (IF g.thinkOpen THEN <<Closed("thinking", g.thinkAt)>> ELSE <<>>)
    \o (IF g.textOpen THEN <<Closed("text", g.textAt)>> ELSE <<>>)

\* The calls that can be given, for Claude Code each once.
Emitted(g) == IF req.cc THEN Deduplicated(g.calls, Streamable(g.calls)) ELSE Streamable(g.calls)

\* Nothing to show: a short answer of its own for a probe, reasoning alone
\* if nothing went wrong.
Nothing(g) == g.text = {} /\ g.calls = NoCalls

Answered(g) ==
  IF Nothing(g) /\ (req.probe = "short" \/ (req.probe = "low" /\ req.cc))
  THEN Say([g EXCEPT !.textOpen = FALSE], Own(g)) ELSE g

EmptyAnswer(g) ==
  Nothing(g) /\ ~(g.reasoning # {} /\ ~g.leaked /\ ~Leaky(g.reasoning \cup g.blob) /\ g.fault = "none")

End(long) ==
  /\ At("finish")
  /\ LET g      == Answered(Bridged(CloseFence(Complete(gen)), long))
         start  == IF g.calls # NoCalls THEN Starting(g) ELSE <<>>
         stop   == IF Emitted(g) # {} THEN "tool_use" ELSE g.finish
         failed == g.calls # NoCalls /\ Emitted(g) = {}
         last   == IF failed THEN "error" ELSE stop
     IN  \/ Broken(gen) /\ Fail(gen)
         \/ ~Broken(gen) /\ EmptyAnswer(g) /\ Fail(g)
         \/ /\ ~Broken(gen) /\ ~EmptyAnswer(g)
            /\ gen' = [g EXCEPT !.out = @ \o Closings(g) \o start \o InOrder(g, Emitted(g)) \o <<Ended(last)>>]
            /\ stage' = "done"
            /\ UNCHANGED <<req, prep, wire>>
===============================================================================
