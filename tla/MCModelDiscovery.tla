--------------------------- MODULE MCModelDiscovery ---------------------------
(* Two free models; the administrators deal with one of them, which is also  *)
(* the one that clients use.  Two required probes, the second of which earns *)
(* the ClaudeCode profile.  The other model's upstream never answers.        *)
EXTENDS ModelDiscovery

NoAnswer == [status |-> "none", error |-> "plain", body |-> <<>>]
Answered(body) == [NoAnswer EXCEPT !.status = "2xx", !.body = body]

MCRequiredProbes == <<"openai_nonstream_minimal", "claudecode_anthropic_forced_tool">>
MCAnswers ==
  [m \in Models |->
     IF m \in Operated
     THEN {NoAnswer, [NoAnswer EXCEPT !.status = "4xx invalid"],
           [NoAnswer EXCEPT !.status = "other", !.error = "protocol"],
           Answered(<<"nothing">>), Answered(<<"text", "bash">>),
           Answered(<<"bash without command">>)}
     ELSE {NoAnswer}]
MCLists == {{}, Models, Models \ Operated}

-----------------------------------------------------------------------------
(* What the probes' verdicts come to, over all short bodies                  *)

Bodies == UNION {[1..n -> Pieces] : n \in 0..3}
Spoken(body) == {"text", "bash", "bash without command", "other tool"} \cap Range(body) # {}

\* A verdict of the JSON and stream readers: a body that was read to its end
\* passes exactly when something was said, both readers of a kind agree on bodies
\* that are JSON throughout, and only the forced call makes silence a breach of
\* the protocol.
ASSUME VerdictsAgree ==
  \A body \in Bodies :
    /\ "bad" \notin Range(body) =>
         (AnthropicStream(body) = "passed" <=> Spoken(body))
    /\ Range(body) \cap {"bad", "blank"} = {} =>
         /\ OpenAiJson(body) = OpenAiStream(body)
         /\ OpenAiJson(body) = AnthropicStream(body)
         /\ OpenAiJson(body) # "hard"
    /\ ForcedTool(body) = "passed" => OpenAiJson(body) = "passed"
=============================================================================
