------------------------------ MODULE MC_Tasks ------------------------------
(***************************************************************************)
(* Instances of Tasks.  Programs are told apart only by being equal or     *)
(* not: one run takes them as symmetric.  Symmetry is not sound for        *)
(* liveness, so the run with fairness launches them in a fixed order, and  *)
(* leaves out only behaviours that differ in their names.                  *)
(***************************************************************************)
EXTENDS Tasks, SequencesExt

Symmetry == Permutations(Program)

Order == SetToSeq(Program)
InOrder ==
  \A i \in 1 .. Len(Order) - 1 :
    state'[Order[i]] = "unborn" => state'[Order[i + 1]] = "unborn"
=============================================================================
