---------------------------- MODULE MCConfigStore ----------------------------
(* Two contents the program writes; they are interchangeable.              *)
EXTENDS ConfigStore, TLC

CONSTANTS v1, v2

MCValues == {v1, v2}
MCSymmetry == Permutations(MCValues)
=============================================================================
