--------------------------- MODULE MCNodeAdmission ---------------------------
(* Instances of NodeAdmission for TLC.  Calls stand for the three budgets:   *)
(* the window is spent after four of them.                                   *)
EXTENDS NodeAdmission

MCResources == {"calls"}
MCLimit == [k \in MCResources |-> 4]
MCCosts == [MCResources -> {1}]
=============================================================================
