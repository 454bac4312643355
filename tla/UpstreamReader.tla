--------------------------- MODULE UpstreamReader ---------------------------
(***************************************************************************)
(* How the kernel reads the upstream's stream of server-sent events        *)
(* (src/free-model-client-rs/src/zen/client.rs).  The bytes come in chunks *)
(* that end anywhere; a frame ends at an empty line, of LF or of CRLF.     *)
(* Two readers share the parser: one hands every event on as it comes      *)
(* (stream_sse_events), one collects the answer and returns it whole       *)
(* (collect_stream_parts).  Both read the same bytes here.                 *)
(***************************************************************************)
EXTENDS Naturals, Sequences, SequencesExt

CONSTANTS
  Bodies,    \* the frames an upstream sends, as sequences of lines
  MaxFrames  \* bound: frames of a stream

\* A line's value: text or a call, blank text, a finish reason, [DONE], an event
\* with neither, no JSON, or a comment.
Line == {"output", "blank", "finish", "done", "usage", "bad", "comment"}
NewLine == {<<"LF">>, <<"CR", "LF">>}

ReaderAssumption == Bodies \subseteq Seq(Line) \ {<<>>} /\ MaxFrames \in Nat

VARIABLES
  sent,    \* the frames of the stream, how its lines end, and what follows them
  got,     \* bytes read; a line's text counts as one
  buffer,  \* SseParser.buffer
  events,  \* what the first reader handed on
  flags,   \* "complete" and "output": what it saw; "done", "finish", "text": the second
  ended    \* of both: "no", "closed" or "error"

vars == <<sent, got, buffer, events, flags, ended>>

Framed(body, newline) ==
  FlattenSeq([l \in DOMAIN body |-> <<body[l]>> \o newline]) \o newline
Wired(frames) == FlattenSeq([i \in DOMAIN frames |-> Framed(frames[i], sent.newline)])
Text == Wired(sent.frames) \o sent.tail

Silent == [frames |-> <<>>, newline |-> <<"LF">>, tail |-> <<>>]

TypeOK ==
  /\ sent.frames \in Seq(Bodies) /\ got \in 0..Len(Text)
  /\ buffer = <<>> \/ buffer \in Seq(Line \cup {"CR", "LF"})
  /\ events \in Seq(Line)
  /\ flags \subseteq {"complete", "output", "done", "finish", "text"}
  /\ ended \in [{"events", "whole"} -> {"no", "closed", "error"}]

Init ==
  /\ sent = Silent
  /\ got = 0 /\ buffer = <<>> /\ events = <<>> /\ flags = {}
  /\ ended = [r \in {"events", "whole"} |-> "no"]

\* The upstream answers with this stream, which may break off anywhere.
Open(frames, newline, tail) ==
  /\ sent = Silent
  /\ sent' = [frames |-> frames, newline |-> newline, tail |-> tail]
  /\ UNCHANGED <<got, buffer, events, flags, ended>>

-----------------------------------------------------------------------------
(* SseParser *)

Starts(b, delimiter) ==
  {i \in 1..Len(b) : i + Len(delimiter) - 1 <= Len(b) /\ SubSeq(b, i, i + Len(delimiter) - 1) = delimiter}

\* next_sse_delimiter: the first of either kind; <<0, 0>> when there is none
Delimiter(b) ==
  LET ends == {<<i, 2>> : i \in Starts(b, <<"LF", "LF">>)}
              \cup {<<i, 4>> : i \in Starts(b, <<"CR", "LF", "CR", "LF">>)}
  IN  IF ends = {} THEN <<0, 0>> ELSE CHOOSE e \in ends : \A f \in ends : e[1] <= f[1]

\* parse_sse_frame and parse_zen_frame: the data lines make one JSON document
Parsed(bytes) ==
  LET data == {i \in DOMAIN bytes : bytes[i] \notin {"CR", "LF", "comment"}}
  IN  IF data = {} THEN "comment"
      ELSE IF \A i, j \in data : i = j THEN bytes[CHOOSE i \in data : TRUE] ELSE "bad"

\* Mutant of Frames: a chunk gives at most one frame.
FirstFrame(b) ==
  LET d == Delimiter(b)
  IN  IF d[1] = 0 THEN [found |-> <<>>, rest |-> b]
      ELSE [found |-> <<Parsed(SubSeq(b, 1, d[1] - 1))>>, rest |-> SubSeq(b, d[1] + d[2], Len(b))]

\* The loop over next_frame, which the readers leave at a bad frame.
Frames(b) ==
  LET from[i \in 1..Len(b) + 1] ==
        LET rest == SubSeq(b, i, Len(b))
            d == Delimiter(rest)
            frame == Parsed(SubSeq(rest, 1, d[1] - 1))
        IN  IF d[1] = 0 THEN [found |-> <<>>, rest |-> rest]
            ELSE IF frame = "bad" THEN [found |-> <<frame>>, rest |-> <<>>]
            ELSE LET more == from[i + d[1] + d[2] - 1] IN [more EXCEPT !.found = <<frame>> \o @]
  IN  from[1]

\* finish
Truncated == \E i \in DOMAIN buffer : buffer[i] \notin {"CR", "LF"}

-----------------------------------------------------------------------------
(* The readers *)

Handed(found) ==
  FlattenSeq([i \in DOMAIN found |->
                IF found[i] \in {"comment", "done", "bad"} THEN <<>> ELSE <<found[i]>>])

\* event_has_output_signal takes blank text, has_collected_output_signal does not.
Flags(found) ==
  LET has(f) == \E i \in DOMAIN found : found[i] = f
  IN  (IF has("done") THEN {"complete", "done"} ELSE {})
        \cup (IF has("finish") THEN {"complete", "finish"} ELSE {})
        \cup (IF has("output") THEN {"output", "text"} ELSE {})
        \cup (IF has("blank") THEN {"output"} ELSE {})

Both(result) == [r \in {"events", "whole"} |-> result]
Reading == sent # Silent /\ ended = Both("no")

Chunk(n) ==
  /\ Reading /\ n \in 1..Len(Text) - got
  /\ LET read == Frames(buffer \o SubSeq(Text, got + 1, got + n))
         bad == \E i \in DOMAIN read.found : read.found[i] = "bad"
     IN  /\ buffer' = read.rest
         /\ events' = events \o Handed(read.found)
         /\ flags' = flags \cup Flags(read.found)
         /\ ended' = IF bad THEN Both("error") ELSE ended
  /\ got' = got + n
  /\ UNCHANGED sent

\* The connection fails: an error, whatever was read.
Break ==
  /\ Reading
  /\ ended' = Both("error")
  /\ UNCHANGED <<sent, got, buffer, events, flags>>

Usable(signal, marks) == signal \in flags \/ (~Truncated /\ marks \cap flags # {})

\* The stream is over, orderly or cut off; without output it needs its end marker.
Close ==
  /\ Reading
  /\ ended' = [events |-> IF Usable("output", {"complete"}) THEN "closed" ELSE "error",
               whole |-> IF Usable("text", {"done", "finish"}) THEN "closed" ELSE "error"]
  /\ UNCHANGED <<sent, got, buffer, events, flags>>

Next ==
  \/ \E n \in 0..MaxFrames, newline \in NewLine, tail \in {<<>>, <<"LF">>, <<"output">>} :
       \E frames \in [1..n -> Bodies] : Open(frames, newline, tail)
  \/ \E n \in 1..Len(Text) : Chunk(n)
  \/ Break \/ Close

Spec == Init /\ [][Next]_vars

-----------------------------------------------------------------------------
(* Properties *)

\* The frames that have come in whole, up to the first bad one
Arrived ==
  LET whole == {n \in 0..Len(sent.frames) : Len(Wired(SubSeq(sent.frames, 1, n))) <= got}
      all == [i \in 1..(CHOOSE n \in whole : \A k \in whole : k <= n) |-> Parsed(sent.frames[i])]
      good == {n \in 0..Len(all) : \A i \in 1..n : all[i] # "bad"}
  IN  SubSeq(all, 1, CHOOSE n \in good : \A k \in good : k <= n)

\* However the bytes are cut into chunks and lines end, the reader has handed on
\* just the events whose frames have come in whole, up to the first that is no
\* JSON; a stream closes without an error only if there was output or an end
\* marker.  The two readers take the same streams for complete, but for those
\* whose only output is blank (client.rs SseParser, stream_sse_events,
\* collect_stream_parts).
ReaderFaithful ==
  /\ events = Handed(Arrived)
  /\ flags = Flags(Arrived)
  /\ ended["whole"] = "closed" => ended["events"] = "closed" /\ flags # {}
  /\ ended["events"] = "closed" => ended["whole"] = "closed" \/ ("output" \in flags /\ "text" \notin flags)
=============================================================================
