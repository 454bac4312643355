------------------------------ MODULE KernelState ------------------------------
(***************************************************************************)
(* The state of one request in the kernel (free-model-client-rs): the      *)
(* request, how far it is, the conversation while it is prepared, what the *)
(* generator of the answer keeps between two upstream events, and what the *)
(* client has received.  Events the generator has yielded wait in gen.out; *)
(* it goes on when the client has taken them.                              *)
(*                                                                         *)
(* The answer starts with the first thing there is to say, which is what   *)
(* true_first_token_frt does by default.                                   *)
(***************************************************************************)
EXTENDS StreamText, Sequences, Integers

CONSTANTS
  Attempts,  \* CLAUDE_CODE_STREAM_GUARD_ATTEMPTS, NON_STREAM_EMPTY_UPSTREAM_ATTEMPTS, ...
  MaxChunks, \* events of an upstream answer that are looked at (a bound)
  Deltas     \* the deltas of tool calls: pairs <<index, what>>

ASSUME KernelAssumption == Attempts \in Nat \ {0} /\ MaxChunks \in Nat
ASSUME DeltasAssumption == \A delta \in Deltas : delta[1] \in Nat

VARIABLES
  req,   \* [path, cc, stream, probe, exempt, small]
  stage, \* the step that is next
  prep,  \* [ms, tools, forced, before, compacted, reduced, exact, risky, mode]
  gen,   \* the locals of the handler of the answer
  wire   \* what the client has

vars == <<req, stage, prep, gen, wire>>

FreshGen ==
  [attempt |-> 0, used |-> {}, chunks |-> 0,
   started |-> FALSE, textOpen |-> FALSE, thinkOpen |-> FALSE, fence |-> FALSE,
   textAt |-> 0, thinkAt |-> 0, next |-> 0, \* next is emitted_tool_call_blocks
   text |-> {}, held |-> {}, hold |-> {}, rhold |-> {}, reasoning |-> {}, blob |-> {},
   leaked |-> FALSE, calls |-> NoCalls, fault |-> "none", finish |-> "stop", out |-> <<>>]

Blocks == {"text", "thinking"}

\* phase, how often the message started, the indices of the blocks that are
\* open, the first index above all that were used, whether reasoning was
\* shown, the text, the calls in order, the stop reason
FreshWire == [phase |-> "waiting", starts |-> 0, blocks |-> [kind \in Blocks |-> {}], top |-> 0,
              thought |-> FALSE, text |-> {}, given |-> <<>>, stop |-> "none"]

-------------------------------------------------------------------------------
(* What is yielded *)

\* A block is named by its index; one of a call opens, grows and closes in
\* one go.
Started            == [e |-> "start"]
Opened(kind, at)   == [e |-> "open", kind |-> kind, at |-> at]
Grown(kind, t, at) == [e |-> "grow", kind |-> kind, text |-> t, at |-> at]
Closed(kind, at)   == [e |-> "close", kind |-> kind, at |-> at]
Called(call, at)   == [e |-> "call", call |-> call, at |-> at]
Ended(stop)        == [e |-> "end", stop |-> stop]

Framed == req.path = "messages" \* blocks open and close

Starting(g) == IF g.started THEN <<>> ELSE <<Started>>
Opening(open, kind, at) == IF open \/ ~Framed THEN <<>> ELSE <<Opened(kind, at)>>

\* Where text goes, and reasoning: both open at the next index.
TextAt(g)  == IF g.textOpen THEN g.textAt ELSE g.next
ThinkAt(g) == IF g.thinkOpen THEN g.thinkAt ELSE g.next

\* message_start unless it was, content_block_start unless it was, and the
\* delta.  The index of a text block is counted only when the block closes.
Say(g, said) ==
  IF said = {} THEN g
  ELSE [g EXCEPT !.started = TRUE, !.textOpen = Framed, !.textAt = TextAt(g), !.text = @ \cup said,
                 !.out = @ \o Starting(g) \o Opening(g.textOpen, "text", TextAt(g))
                           \o <<Grown("text", said, TextAt(g))>>]

\* Mutant of Think: does not count the block.
ThinkInPlace(g, thought) ==
  IF thought = {} THEN g
  ELSE [g EXCEPT !.started = TRUE, !.thinkOpen = TRUE, !.thinkAt = ThinkAt(g), !.reasoning = @ \cup thought,
                 !.out = @ \o Starting(g) \o Opening(g.thinkOpen, "thinking", ThinkAt(g))
                           \o <<Grown("thinking", thought, ThinkAt(g))>>]

Think(g, thought) ==
  IF thought = {} THEN g
  ELSE [g EXCEPT !.started = TRUE, !.thinkOpen = TRUE, !.thinkAt = ThinkAt(g), !.reasoning = @ \cup thought,
                 !.next = IF g.thinkOpen THEN @ ELSE @ + 1,
                 !.out = @ \o Starting(g) \o Opening(g.thinkOpen, "thinking", ThinkAt(g))
                           \o <<Grown("thinking", thought, ThinkAt(g))>>]

Own(g) == {Piece("own", g.attempt)}

\* The first index above those the client has seen, once it sees this one.
Later(w, at) == IF Framed /\ at >= w.top THEN at + 1 ELSE w.top

\* The client takes the next event.
Received(w, event) ==
  CASE event.e = "start" -> [w EXCEPT !.phase = "open", !.starts = @ + 1]
    [] event.e = "open"  -> [w EXCEPT !.blocks[event.kind] = @ \cup {event.at}, !.top = Later(w, event.at)]
    [] event.e = "grow"  -> IF event.kind = "text" THEN [w EXCEPT !.text = @ \cup event.text]
                            ELSE [w EXCEPT !.thought = TRUE]
    [] event.e = "close" -> [w EXCEPT !.blocks[event.kind] = @ \ {event.at}]
    [] event.e = "call"  -> [w EXCEPT !.given = Append(@, event.call), !.top = Later(w, event.at)]
    [] OTHER             -> [w EXCEPT !.phase = "ended", !.stop = event.stop] \* "end"

Deliver ==
  /\ gen.out # <<>>
  /\ wire' = Received(wire, Head(gen.out))
  /\ gen' = [gen EXCEPT !.out = Tail(@)]
  /\ UNCHANGED <<req, stage, prep>>

\* The client goes away: the generator is dropped where it stands.
HangUp ==
  /\ stage # "gone" /\ wire.phase # "ended"
  /\ stage' = "gone"
  /\ gen' = FreshGen
  /\ UNCHANGED <<req, prep, wire>>

At(step) == stage = step /\ gen.out = <<>>

-------------------------------------------------------------------------------
(* Text on its way to the client *)

OffersTools == prep.tools # "none"

\* push_visible_chunk: Claude Code does not see an announcement that may be
\* all there is as long as no call has come.
Pushed(g, piece) ==
  IF piece = {} THEN g
  ELSE IF req.cc /\ g.calls = NoCalls /\ OffersTools /\ Unfinished(g.text \cup g.held \cup piece)
       THEN [g EXCEPT !.held = @ \cup piece]
       ELSE [Say(g, g.held \cup piece) EXCEPT !.held = {}]

\* take_emittable_text of the text, and of the reasoning.
Guarding(g, piece) ==
  [g EXCEPT !.hold   = HeldBack(@, piece),
            !.leaked = @ \/ Leaky(g.hold \cup {piece}),
            !.blob   = IF Leaky(g.hold \cup {piece}) THEN @ \cup g.hold \cup {piece} ELSE @]

GuardingReasoning(g, piece) ==
  [g EXCEPT !.rhold  = HeldBack(@, piece),
            !.leaked = @ \/ Leaky(g.rhold \cup {piece}),
            !.blob   = IF Leaky(g.rhold \cup {piece}) THEN @ \cup g.rhold \cup {piece} ELSE @]

\* What is still held back at the end: a leak is noted and stays, the rest
\* is let go.
Drained(g) ==
  [g EXCEPT !.hold   = IF Leaky(@) THEN @ ELSE {},
            !.rhold  = IF Leaky(@) THEN @ ELSE {},
            !.leaked = @ \/ Leaky(g.hold \cup g.rhold),
            !.blob   = @ \cup (g.hold \ Flushed(g.hold)) \cup (g.rhold \ Flushed(g.rhold))]

Markup(g) == g.leaked \/ Leaky(g.text \cup g.reasoning \cup g.blob)

Leaking(g) == g.calls = NoCalls /\ Markup(g)

\* try_repair_dsml_invoke_leak
Repairs(g) == g.calls = NoCalls /\ Repairable(g.text \cup g.reasoning \cup g.blob)
RepairedCall == Merged(NoCalls, 0, "repaired")

\* stream_reasoning_visible_text_bridge; whether the reasoning is much longer
\* than the text is the model's doing.
Bridges(g, long) ==
  /\ g.calls = NoCalls /\ g.reasoning # {} /\ ~Leaky(g.text \cup g.reasoning)
  /\ g.text = {} \/ long

\* The index of the first block of a call: next, and after the text if that
\* is open.
CallsAt(g) == IF g.textOpen /\ g.textAt >= g.next THEN g.textAt + 1 ELSE g.next

\* The call with an index, as the client is told of it.
Given(g, index, at) == Called([from |-> g.attempt, what |-> g.calls[index]], at)

InOrder(g, indexes) ==
  LET n == Cardinality(indexes)
      nth == [i \in 1..n |-> CHOOSE k \in indexes : Cardinality({m \in indexes : m < k}) = i - 1]
  IN  [i \in 1..n |-> Given(g, nth[i], CallsAt(g) + i - 1)]

-------------------------------------------------------------------------------
(* How an attempt can fail before it answers, and what is tried then *)

Errors == {"rateLimited", "missingReasoning", "invalid", "other"}

\* is_risky_claude_code_tool_history_request
Risky(error) ==
  req.cc /\ OffersTools /\ (prep.risky \/ error = "missingReasoning")

\* should_retry_missing_reasoning_content
EnrichesFirst(error) == error = "missingReasoning" /\ "missing" \notin gen.used

\* provider_invalid_tool_history_retry_mode
RetryMode(error) ==
  IF error \notin {"invalid", "missingReasoning"} \/ ~Risky(error) THEN "none"
  ELSE IF error = "missingReasoning" /\ gen.used \cap {"missing", "enrich"} = {} THEN "enrich"
  ELSE IF "compat" \notin gen.used THEN "compat"
  ELSE IF "text" \notin gen.used THEN "text" ELSE "none"

\* Mutant of More: one attempt more than there are.
MoreThanAttempts(g) == g.attempt < Attempts

More(g) == g.attempt + 1 < Attempts
===============================================================================
