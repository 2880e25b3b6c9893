----------------------------- MODULE MC_TaskIds -----------------------------
(***************************************************************************)
(* A word of eight bits and an int of four, half as wide as on the AVR.    *)
(***************************************************************************)
EXTENDS TaskIds, TLC

Symmetry == Permutations(Program)
=============================================================================
