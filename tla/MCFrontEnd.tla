----------------------------- MODULE MCFrontEnd ------------------------------
(* An instance of FrontEnd for TLC.                                          *)
EXTENDS FrontEnd

\* Two lanes are used: the tool-heavy one, whose configured zero means one slot,
\* and the one of streams with two.
MCSlots == [k \in LaneKind |-> IF k = "NormalStream" THEN 2 ELSE 0]
MCProfiles ==
  {q \in Profile : q.size = "small" /\ q.chat /\ q.stream
                   /\ ~q.longOutput /\ ~q.longInput}

\* A name that is discovered, one that a request alias hides, and a static one.
\* The helper is not listed.
MCStatic == [flash |-> "flash-free", helper |-> "flash-free"]
MCAliases == [deep |-> "flash-free"]
MCFound == {"new-free", "deep-free"}
MCAlias ==
  [n \in MCFound \cup {"flash", "helper", "deep", "new"} |->
     CASE n = "new-free" -> "new" [] n = "deep-free" -> "deep" [] OTHER -> None]
=============================================================================
