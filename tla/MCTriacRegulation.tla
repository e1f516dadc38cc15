-------------------------- MODULE MCTriacRegulation --------------------------
(* Three units of opening, three parts of a unit, corrections of one part, *)
(* which rounding would lose, and of several units, a ceiling of two       *)
(* thirds.                                                                 *)
EXTENDS TriacRegulation

MCSteps    == {1, 7}
MCOpenings == {0, 1, 3}

(* The points the diagnostics page writes, at 50, 80 and 100 percent: the  *)
(* unit is ten percent in the run that uses them.                          *)
MCPoints   == <<[duty |-> 5, watts |-> 10], [duty |-> 8, watts |-> 20], [duty |-> 10, watts |-> 20]>>
MCNoPoints == [j \in 1 .. 3 |-> [duty |-> 0, watts |-> 0]]
MCFull     == {0, 3}
MCTenth    == {1, 7}
=============================================================================
