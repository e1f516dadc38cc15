---------------------------- MODULE MCTriacPhase ----------------------------
(* A device scaled down: a few phase ticks per 10 ms alarm, the timings of *)
(* two mains profiles, a closed triac and the latest delay that fires.     *)
EXTENDS TriacPhase

MCDelays == {97, 100}
MCMaxTicks == {2, 3}
=============================================================================
