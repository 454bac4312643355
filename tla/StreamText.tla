------------------------------ MODULE StreamText ------------------------------
(***************************************************************************)
(* What the kernel makes of the text of a model's answer while it arrives: *)
(* dsml_guard.rs, dsml_repair.rs, unfinished_intent.rs and the merging of  *)
(* tool-call deltas.                                                       *)
(*                                                                         *)
(* A text is the set of the pieces it is made of; a piece is its kind and  *)
(* the attempt it came with.  Kinds:                                       *)
(*   word    text that says something                                      *)
(*   intent  a short announcement ("let me check ...")                     *)
(*   lt      what may be the beginning of tool markup                      *)
(*   leak    tool markup in the text that can be turned into a call        *)
(*   dsml    tool markup that cannot                                       *)
(*   fence   the beginning of a fenced block                               *)
(*   own     words of the kernel's own                                     *)
(***************************************************************************)
EXTENDS Naturals, FiniteSets

ContentKinds   == {"word", "intent", "lt", "leak", "dsml", "fence"}
ReasoningKinds == {"word", "leak"}

Piece(kind, attempt) == [kind |-> kind, attempt |-> attempt]

Has(text, kinds) == \E piece \in text : piece.kind \in kinds

AttemptsOf(text) == {piece.attempt : piece \in text}

\* contains_dsml_tool_leak
Leaky(text) == Has(text, {"leak", "dsml"})

\* repair_invoke_leak, and the gate its call has to pass
Repairable(text) == Has(text, {"leak"})

\* looks_like_unfinished_tool_intent
Unfinished(text) == Has(text, {"intent"}) /\ ~Has(text, {"word", "fence", "own"})

-------------------------------------------------------------------------------
(* take_emittable_text: a piece joins what is held back; what cannot be the *)
(* beginning of markup any more is released.                                *)

HeldBack(hold, piece) ==
  IF Leaky(hold \cup {piece}) THEN hold \cup {piece}
  ELSE IF piece.kind = "lt" THEN {piece} ELSE {}

\* Mutant of Released: holds back what is noted only.
ReleasedAll(hold, piece) == (hold \cup {piece}) \ {held \in HeldBack(hold, piece) : held.kind = "lt"}

Released(hold, piece) ==
  IF Leaky(hold \cup {piece}) THEN {} ELSE (hold \cup {piece}) \ HeldBack(hold, piece)

\* flush_holdback
Flushed(hold) == IF Leaky(hold) THEN {} ELSE hold

-------------------------------------------------------------------------------
(* merge_tool_deltas.  `calls` maps the index of a call to what has come of *)
(* its arguments: "partial" is not JSON yet, "bad" is JSON the client's     *)
(* tool would refuse, anything else is a call by the name of what it asks.  *)

NoCalls == [index \in {} |-> "partial"]

MayFollow(calls, index) == index \in DOMAIN calls => calls[index] = "partial"

Merged(calls, index, what) ==
  [n \in DOMAIN calls \cup {index} |-> IF n = index THEN what ELSE calls[n]]

\* Mutant of Streamable: does not look at the tool's schema.
StreamableUnchecked(calls) == {index \in DOMAIN calls : calls[index] # "partial"}

\* streamable_anthropic_tool_call
Streamable(calls) == {index \in DOMAIN calls : calls[index] \notin {"partial", "bad"}}

OnlyIncomplete(calls) == DOMAIN calls # {} /\ Streamable(calls) = {}

\* should_skip_duplicate_claude_code_tool_call: of equal calls the first.
Deduplicated(calls, indexes) ==
  {n \in indexes : \A m \in indexes : calls[m] = calls[n] => n <= m}
===============================================================================
