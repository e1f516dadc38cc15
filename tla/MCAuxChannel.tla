----------------------------- MODULE MCAuxChannel -----------------------------
(* Three units of opening and a multi-sine pattern for each opening.       *)
EXTENDS AuxChannel

MCSinusOn    == [o \in 0 .. Full |-> <<0, 1, 2, 2>>[o + 1]]
MCSinusTotal == [o \in 0 .. Full |-> <<2, 4, 3, 2>>[o + 1]]
MCAllModes   == {"inactive", "onoff", "multi", "train", "demi", "pwm"}
MCRelay      == {"inactive", "onoff"}
=============================================================================
