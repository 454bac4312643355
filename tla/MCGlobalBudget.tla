---------------------------- MODULE MCGlobalBudget ----------------------------
(* Two instances, one of them with two requests and a clock that is ahead.   *)
EXTENDS GlobalBudget

CONSTANTS i1, i2, r1, r2, r3

MCInstances == {i1, i2}
MCRequests == {r1, r2, r3}
MCHome == [r \in MCRequests |-> IF r = r3 THEN i2 ELSE i1]
MCSkew == [i \in MCInstances |-> IF i = i1 THEN 1 ELSE 0]
=============================================================================
