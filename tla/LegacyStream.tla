---------------------------- MODULE LegacyStream ----------------------------
(***************************************************************************)
(* The relay of the straight way, for streams that the kernel does not     *)
(* handle: bytes are cut into lines, a line is patched and sent on         *)
(* (src/zen-proxy-rs/src/sse.rs, proxy.rs stream_to_axum).  SseBuffer      *)
(* keeps no unfinished line from one chunk to the next.                    *)
(***************************************************************************)
EXTENDS Naturals, Sequences, SequencesExt

CONSTANTS
  MaxEvents, \* bound: events of a stream
  Anywhere   \* chunks end anywhere, or at the end of a line only

\* A line's text comes in two halves.  "thought" is a delta with reasoning only.
Texture == {"event", "thought", "comment", "done"}
Half == {<<t, h>> : t \in Texture, h \in 1..2}
LF == <<"LF", 0>>
CR == <<"CR", 0>>
Byte == Half \cup {CR, LF}

LegacyAssumption == MaxEvents \in Nat \ {0} /\ Anywhere \in BOOLEAN

\* What upstreams send: events, each with an empty line after it.
Whole(t) == <<<<t, 1>>, <<t, 2>>>>
Texts ==
  {FlattenSeq([i \in DOMAIN events |-> Whole(events[i]) \o newline \o newline]) :
     events \in [1..MaxEvents -> Texture], newline \in {<<LF>>, <<CR>>, <<CR, LF>>}}

VARIABLES
  text,    \* the upstream's stream
  read,    \* bytes of it that were relayed
  done,    \* SseBuffer.done
  relayed, \* lines sent to the client
  over     \* the relay has ended

vars == <<text, read, done, relayed, over>>

\* The client's view of a line: patch_sse_line gives a thought a content.
Patched(line) ==
  IF line = Whole("thought") THEN <<<<"event", 1>>, <<"event", 2>>>> ELSE line

TypeOK ==
  /\ text \in Seq(Byte) /\ read \in 0..Len(text)
  /\ done \in BOOLEAN /\ over \in BOOLEAN
  /\ relayed \in Seq(Seq(Half))

Init == text = <<>> /\ read = 0 /\ done = FALSE /\ relayed = <<>> /\ over = FALSE

Open(t) ==
  /\ text = <<>>
  /\ text' = t
  /\ UNCHANGED <<read, done, relayed, over>>

-----------------------------------------------------------------------------
(* push_bytes *)

Idle == [line |-> <<>>, lines |-> <<>>, done |-> FALSE, cr |-> FALSE]

\* The next byte; "cr" says that the last one was a CR of this chunk, to which a
\* LF belongs.
Take(s, b) ==
  IF b = LF /\ s.cr THEN [s EXCEPT !.cr = FALSE]
  ELSE IF b \notin {CR, LF} THEN [s EXCEPT !.line = Append(@, b), !.cr = FALSE]
  ELSE [line |-> <<>>,
        lines |-> IF s.done THEN s.lines ELSE Append(s.lines, Patched(s.line)),
        done |-> s.done \/ s.line = Whole("done"),
        cr |-> b = CR]

Pushed(chunk) == FoldLeft(Take, [Idle EXCEPT !.done = done], chunk)

LineEnd(i) == text[i] = LF \/ (text[i] = CR /\ (i < Len(text) => text[i + 1] # LF))

Chunk(n) ==
  /\ text # <<>> /\ ~over /\ n \in 1..Len(text) - read
  /\ Anywhere \/ LineEnd(read + n)
  /\ LET s == Pushed(SubSeq(text, read + 1, read + n))
     IN  relayed' = relayed \o s.lines /\ done' = s.done /\ over' = s.done
  /\ read' = read + n
  /\ UNCHANGED text

\* The upstream's stream ends, or breaks.
End ==
  /\ text # <<>> /\ ~over
  /\ over' = TRUE
  /\ UNCHANGED <<text, read, done, relayed>>

Next == (\E t \in Texts : Open(t)) \/ (\E n \in 1..Len(text) : Chunk(n)) \/ End

Spec == Init /\ [][Next]_vars

-----------------------------------------------------------------------------
(* Properties *)

\* The lines of the bytes relayed so far, as if they had come at once.
Lines == FoldLeft(Take, Idle, SubSeq(text, 1, read)).lines

\* What is relayed does not depend on where the chunks end: the test
\* handles_chunk_split_inside_json of sse.rs says a split line is handled.
RelayFaithful == relayed = Lines
=============================================================================
