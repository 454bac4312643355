---------------------------- MODULE MessageStream ----------------------------
(***************************************************************************)
(* What the client of an answer may rely on, whichever upstream attempts   *)
(* stand behind it: the message starts, its blocks open, grow and close,   *)
(* its tool calls come last, and it ends, once.  A call never comes from   *)
(* an attempt before one the client has text of already.                   *)
(*                                                                         *)
(* Blocks are numbered from 0 without a gap.  A number is a block's own,   *)
(* with one exception: the last one, of a text block that is still open,   *)
(* may be used again, by reasoning or text that opens or by a call that    *)
(* was repaired from the text.  A client that keeps its blocks by number   *)
(* then takes the two for one; a number that is closed never comes back.   *)
(***************************************************************************)
EXTENDS Naturals, Sequences

CONSTANTS
  Tries, \* what the attempts are numbered with
  Whats  \* what calls may ask for

VARIABLES
  strict, \* whether the message may start only once
  framed, \* whether what grows has to be open
  phase,  \* "waiting", "open" or "ended"
  starts, \* how often the message has started
  blocks, \* the numbers of the blocks of a kind that are open
  top,    \* the number after the last one
  said,   \* the attempts whose text the client has
  given   \* the calls the client has

vars == <<strict, framed, phase, starts, blocks, top, said, given>>

Kinds == {"text", "thinking"}

Fresh(at)  == at = top
Reused(at) == at + 1 = top /\ at \in blocks["text"]

Init ==
  /\ strict \in BOOLEAN /\ framed \in BOOLEAN
  /\ phase = "waiting" /\ starts = 0 /\ blocks = [kind \in Kinds |-> {}] /\ top = 0 /\ said = {} /\ given = <<>>

Start ==
  /\ phase # "ended" /\ given = <<>>
  /\ strict => starts = 0
  /\ phase' = "open" /\ starts' = starts + 1
  /\ UNCHANGED <<strict, framed, blocks, top, said, given>>

Open(kind, at) ==
  /\ framed /\ phase = "open" /\ given = <<>>
  /\ Fresh(at) \/ Reused(at)
  /\ blocks' = [blocks EXCEPT ![kind] = @ \cup {at}] /\ top' = at + 1
  /\ UNCHANGED <<strict, framed, phase, starts, said, given>>

Grow(kind, from, at) ==
  /\ phase = "open" /\ given = <<>>
  /\ framed => at \in blocks[kind]
  /\ said' = IF kind = "text" THEN said \cup from ELSE said
  /\ UNCHANGED <<strict, framed, phase, starts, blocks, top, given>>

Close(kind, at) ==
  /\ phase = "open" /\ given = <<>> /\ at \in blocks[kind]
  /\ blocks' = [blocks EXCEPT ![kind] = @ \ {at}]
  /\ UNCHANGED <<strict, framed, phase, starts, top, said, given>>

Call(call, at) ==
  /\ phase = "open"
  /\ \A m \in said : call.from >= m
  /\ framed => Fresh(at) \/ (Reused(at) /\ call.what = "repaired")
  /\ given' = Append(given, call) /\ top' = IF framed THEN at + 1 ELSE top
  /\ UNCHANGED <<strict, framed, phase, starts, blocks, said>>

End ==
  /\ phase # "ended"
  /\ phase' = "ended"
  /\ UNCHANGED <<strict, framed, starts, blocks, top, said, given>>

Next ==
  \/ Start \/ End
  \/ \E at \in 0..top :
       \/ \E kind \in Kinds :
            Open(kind, at) \/ Close(kind, at) \/ \E from \in SUBSET Tries : Grow(kind, from, at)
       \/ \E call \in [from : Tries, what : Whats] : Call(call, at)

Spec == Init /\ [][Next]_vars
===============================================================================
