------------------------------- MODULE Permits -------------------------------
(***************************************************************************)
(* What a concurrency limiter promises: at most Limit permits are out at   *)
(* any time.  A permit may be given back, or lapse without being given     *)
(* back, at any moment, also in the step that grants the next one.         *)
(* GlobalBudget and Lanes implement it.                                    *)
(***************************************************************************)
EXTENDS Integers, FiniteSets

CONSTANTS Permit, Limit
VARIABLE out

Init == out = {}

Lapse(gone) == out' = out \ gone

Grant(p, gone) ==
  /\ p \notin out
  /\ Cardinality(out \ gone) < Limit
  /\ out' = (out \ gone) \cup {p}

Next ==
  \E gone \in SUBSET out :
    \/ Lapse(gone)
    \/ \E p \in Permit : Grant(p, gone)

Spec == Init /\ [][Next]_out
=============================================================================
