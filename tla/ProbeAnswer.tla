----------------------------- MODULE ProbeAnswer -----------------------------
(***************************************************************************)
(* What a probe of a model concludes from the upstream's answer            *)
(* (src/zen-proxy-rs/src/v4/model_probe.rs, BoundedHttpProbeAdapter): the  *)
(* model passed, failed softly, which counts towards quarantine, or broke  *)
(* the protocol, which quarantines it at once.                             *)
(***************************************************************************)
EXTENDS Naturals, Sequences, Functions

Outcomes == {"passed", "soft", "hard"}

\* What an answer's body consists of: the parts of a JSON body, or the data lines
\* of a stream.  A call of the tool Bash may come without a command; "bad" is not
\* JSON, and "blank" a data line with nothing in it.
Pieces == {"text", "nothing", "bash", "bash without command", "other tool", "bad", "blank"}

\* "none" is a request that failed or an answer that could not be read or was too
\* large.  Of an error message only the two groups of words that are looked for
\* are told apart.
Responses ==
  [status : {"2xx", "4xx invalid", "other", "none"},   \* 400 and 422 are invalid
   error : {"protocol", "empty", "plain"},
   body : Seq(Pieces)]

Calls == {"bash", "bash without command", "other tool"}
Malformed(body) == {"bad", "blank"} \cap Range(body) # {}
SomeOutput(body) == ({"text"} \cup Calls) \cap Range(body) # {}

Transported(r) == r.status # "none"

\* The words of the message come before the status.
HttpError(r) ==
  IF r.error = "protocol" \/ (r.error = "plain" /\ r.status = "4xx invalid")
  THEN "hard" ELSE "soft"

OpenAiJson(body) ==
  IF Malformed(body) THEN "hard"
  ELSE IF SomeOutput(body) THEN "passed" ELSE "soft"

AnthropicJson(body) ==
  IF Malformed(body) THEN "hard"
  ELSE IF SomeOutput(body) THEN "passed" ELSE "soft"

\* The first call of Bash decides.
ForcedTool(body) ==
  LET bash == SelectSeq(body, LAMBDA x : x \in {"bash", "bash without command"})
  IN  IF ~Malformed(body) /\ bash # <<>> /\ bash[1] = "bash" THEN "passed" ELSE "hard"

\* A stream is read up to its first output or its first line that is no JSON.
Decisive(lines, fatal) ==
  LET told == SelectSeq(lines, LAMBDA x : x \in fatal \cup {"text"} \cup Calls)
  IN  IF told = <<>> THEN "soft"
      ELSE IF told[1] \in fatal THEN "hard" ELSE "passed"

\* Only the reader of the chat path takes an empty data line for broken JSON.
OpenAiStream(lines) == Decisive(lines, {"bad", "blank"})
AnthropicStream(lines) == Decisive(lines, {"bad"})

Verdict(probe, r) ==
  IF r.status # "2xx" THEN HttpError(r)
  ELSE CASE probe = "openai_stream_minimal" -> OpenAiStream(r.body)
         [] probe = "anthropic_stream_minimal" -> AnthropicStream(r.body)
         [] probe = "claudecode_anthropic_forced_tool" -> ForcedTool(r.body)
         [] probe = "anthropic_nonstream_minimal" -> AnthropicJson(r.body)
         [] probe \in {"openai_nonstream_minimal", "tool_history_minimal",
                       "empty_output_guard", "format_guard"} -> OpenAiJson(r.body)
         [] OTHER -> "soft"

\* The metadata probe asks nobody: it fails for a name that is no free model's.
RunProbe(probe, free, r) ==
  IF probe = "metadata" THEN (IF free THEN "passed" ELSE "hard")
  ELSE IF Transported(r) THEN Verdict(probe, r) ELSE "soft"
=============================================================================
