------------------------------ MODULE FrontEnd -------------------------------
(***************************************************************************)
(* What a request meets first: the lane it has to pass (Lanes), and the    *)
(* list that it took its model's name from (LiveProbe).  The two share no  *)
(* state, so a behaviour moves one of them; which, it chooses at the       *)
(* start.                                                                  *)
(***************************************************************************)
EXTENDS Lanes, Sequences

\* LiveProbe's constants
CONSTANTS Static, Hidden, Aliases, Found, Alias, None, Allowlist, Mode, Threshold, Batches

VARIABLES part, states, serves, verdicts, running

list == <<states, serves, verdicts, running>>

L == INSTANCE LiveProbe

ASSUME FrontEndAssumption == L!ProbeAssumption

-----------------------------------------------------------------------------
FrontEndInit == part \in {"lanes", "list"} /\ Init /\ L!Init

FrontEndNext ==
  \/ part = "lanes" /\ Next /\ UNCHANGED <<part, list>>
  \/ part = "list" /\ L!Next /\ UNCHANGED <<part, vars>>

FrontEndSpec ==
  /\ FrontEndInit /\ [][FrontEndNext]_<<part, vars, list>>
  /\ Fairness /\ (part = "list" => L!Fairness)

-----------------------------------------------------------------------------
\* The types of both.
FrontEndTypeOK == TypeOK /\ L!TypeOK

\* The list's promise, under the name that its module gives it.
ListingFollowsProbes == L!ListingFollowsProbes
=============================================================================
