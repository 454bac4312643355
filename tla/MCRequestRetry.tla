---------------------------- MODULE MCRequestRetry ----------------------------
(* One request of each class the retry policy tells apart.                   *)
EXTENDS RequestRetry

Messages == [path |-> "messages", mimo |-> FALSE, stream |-> TRUE,
             probe |-> "none", local |-> FALSE, tokens |-> 20000, direct |-> TRUE]

MCRequests ==
  {Messages,
   [Messages EXCEPT !.path = "chat/completions", !.stream = FALSE, !.tokens = 100000],
   [Messages EXCEPT !.direct = FALSE, !.tokens = 60000],
   [Messages EXCEPT !.tokens = 100000],
   [Messages EXCEPT !.stream = FALSE, !.mimo = TRUE],
   [Messages EXCEPT !.probe = "micro", !.local = TRUE, !.tokens = 0],
   [Messages EXCEPT !.probe = "small", !.direct = FALSE, !.tokens = 0]}
=============================================================================
