------------------------------ MODULE MCDayEnergy ------------------------------
(* The energy of the day on four days, a ring of three slots and a meter   *)
(* that counts to three.                                                   *)
EXTENDS DayEnergy

(* Nothing is asked of what follows a tear, nor, with a second meter, of   *)
(* what follows an overlap: neither is explored further.  Little is asked  *)
(* once the clock ticks have overlapped, which ends on day two; with a     *)
(* second meter there are three days.                                      *)
Explored == ~torn /\ (overlap => today < 3 /\ ~second) /\ (second => today < 4)
=============================================================================
