---------------------------- MODULE MCActionNode ----------------------------
(* A short day of two hours, one fixed and one regulated, and a bad upload. *)
EXTENDS ActionNode

P(end, kind, order, inf, sup) ==
  [end |-> end, kind |-> kind, order |-> order, inf |-> inf, sup |-> sup]

MCUploads ==
  { <<P(1, "fixed", "hors_gel", Disabled, Disabled),
      P(2, "regulation", "confort", Disabled, 20)>>,
    <<P(2, "regulation", "confort", 10, Disabled)>>,
    <<P(1, "regulation", "confort", Disabled, Disabled)>> }

MCOrders == {"eco", "arret"}
MCDurations == {0, 2, 3}
MCReadings == {5, 25}
=============================================================================
