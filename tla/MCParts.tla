------------------------------ MODULE MCParts -------------------------------
(* Instances of Parts for TLC.                                               *)
EXTENDS Parts, MCProxyPool

\* One instance has two of the session's three tasks.
MCHome == [c \in Callers |-> IF c = CHOOSE x \in Callers : TRUE
                             THEN CHOOSE i \in Instances : TRUE
                             ELSE CHOOSE i \in Instances : i # CHOOSE j \in Instances : TRUE]
MCPinNodes == {"n1", "n2"}

\* Nothing orders or names requests, nor the tasks of Delivery.  A behaviour moves
\* the ones or the others, so exchanging the two pairs at once is enough.
MCExchange ==
  {f \in Permutations(Requests \cup Tasks) :
     \/ \A x \in DOMAIN f : f[x] = x
     \/ /\ \A r \in Requests : f[r] \in Requests \ {r}
        /\ \A t \in Tasks : f[t] \in Tasks \ {t}}

MCBodies ==
  {<<l>> : l \in {"output", "blank", "finish", "done", "usage", "bad", "comment"}}
    \cup {<<"comment", "output">>, <<"usage", "usage">>}
=============================================================================
