----------------------------- MODULE OpenAiStream -----------------------------
(***************************************************************************)
(* handle_oa_stream of proxy/openai.rs: the answer to                      *)
(* POST /v1/chat/completions with "stream": true.  Every attempt starts    *)
(* with fresh locals, and another one is made as long as the role, which   *)
(* comes with the first thing to say, has not been sent.                   *)
(***************************************************************************)
EXTENDS KernelState

Again(g) == [FreshGen EXCEPT !.attempt = g.attempt + 1, !.used = g.used, !.out = g.out]

Retry(g) == gen' = Again(g) /\ stage' = "fetch" /\ UNCHANGED <<req, prep, wire>>

Fail(g) ==
  /\ gen' = [g EXCEPT !.out = @ \o <<Ended("error")>>]
  /\ stage' = "done"
  /\ UNCHANGED <<req, prep, wire>>

-------------------------------------------------------------------------------
FetchSucceeds ==
  /\ At("fetch")
  /\ stage' = "read"
  /\ UNCHANGED <<req, prep, gen, wire>>

\* The same attempt is made again with its reasoning enriched, once; any
\* other error is the client's.
FetchFails(error) ==
  /\ At("fetch")
  /\ IF EnrichesFirst(error)
     THEN gen' = [gen EXCEPT !.used = @ \cup {"missing"}] /\ UNCHANGED <<req, stage, prep, wire>>
     ELSE Fail(gen)

-------------------------------------------------------------------------------
Reading == At("read") /\ gen.chunks < MaxChunks

Keep(g) == gen' = [g EXCEPT !.chunks = @ + 1] /\ UNCHANGED <<req, stage, prep, wire>>

\* The text is looked at whether or not a call has come.
Content(kind) ==
  /\ Reading
  /\ LET piece    == Piece(kind, gen.attempt)
         released == Released(gen.hold, piece)
         g        == [Guarding(gen, piece) EXCEPT !.fence = @ \/ (~req.cc /\ Has(released, {"fence"}))]
     IN  Keep(Pushed(g, released))

Reasoning(kind) ==
  /\ Reading
  /\ LET piece == Piece(kind, gen.attempt)
     IN  Keep([GuardingReasoning(gen, piece) EXCEPT !.reasoning = @ \cup Released(gen.rhold, piece)])

ToolDelta(delta) ==
  /\ Reading
  /\ MayFollow(gen.calls, delta[1])
  /\ Keep([gen EXCEPT !.calls = Merged(@, delta[1], delta[2])])

StreamFails ==
  /\ At("read")
  /\ IF ~gen.started /\ gen.text = {} /\ gen.calls = NoCalls /\ More(gen) THEN Retry(gen) ELSE Fail(gen)

\* MarkdownFenceGuard::finish
CloseFence(g) == IF g.fence THEN [Say(g, Own(g)) EXCEPT !.fence = FALSE] ELSE g

StreamEnds(finish) ==
  /\ At("read")
  /\ gen' = LET g == Pushed(Drained([gen EXCEPT !.finish = finish]), Flushed(gen.hold))
            IN  CloseFence([g EXCEPT !.reasoning = @ \cup Flushed(gen.rhold)])
  /\ stage' = "settle"
  /\ UNCHANGED <<req, prep, wire>>

-------------------------------------------------------------------------------
\* try_repair_openai_dsml_invoke_leak
AfterLeak(g) == IF Repairs(g) THEN [g EXCEPT !.calls = RepairedCall] ELSE g

RetriesUnfinished(g) ==
  /\ g.text = {} /\ g.calls = NoCalls
  /\ req.cc /\ OffersTools /\ More(g) /\ Unfinished(g.held)

Settle ==
  /\ At("settle")
  /\ LET g == AfterLeak(gen)
     IN  \/ Leaking(g) /\ ~g.started /\ More(g) /\ Retry(g)
         \/ Leaking(g) /\ (g.started \/ ~More(g)) /\ Fail(g)
         \/ ~Leaking(g) /\ RetriesUnfinished(g) /\ Retry(g)
         \/ /\ ~Leaking(g) /\ ~RetriesUnfinished(g)
            /\ gen' = [Say(g, g.held) EXCEPT !.held = {}]
            /\ stage' = "finish"
            /\ UNCHANGED <<req, prep, wire>>

-------------------------------------------------------------------------------
(* The last chunk *)

Nothing(g) == g.text = {} /\ g.calls = NoCalls

Shown(g) == IF Nothing(g) /\ (Bridges(g, FALSE) \/ req.probe = "short") THEN Say(g, Own(g)) ELSE g

\* Calls are passed on as they came.
FinalStop(g) ==
  IF g.calls # NoCalls THEN "tool_use"
  ELSE IF req.cc /\ OffersTools /\ Unfinished(g.text) THEN "length" ELSE g.finish

End ==
  /\ At("finish")
  /\ LET g == Shown(gen)
     IN  \/ Nothing(g) /\ ~g.started /\ More(g) /\ Retry(g)
         \/ Nothing(g) /\ (g.started \/ ~More(g)) /\ Fail(g)
         \/ /\ ~Nothing(g)
            /\ gen' = [g EXCEPT !.out = @ \o Starting(g) \o InOrder(g, DOMAIN g.calls)
                                          \o <<Ended(FinalStop(g))>>]
            /\ stage' = "done"
            /\ UNCHANGED <<req, prep, wire>>
===============================================================================
