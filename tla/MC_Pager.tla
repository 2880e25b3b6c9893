------------------------------ MODULE MC_Pager ------------------------------
(***************************************************************************)
(* Six pages over four frames: pages pinned below and above a flushed      *)
(* range of two frames, one slot each, so that a run reaches every order   *)
(* of filling, flushing and refilling.                                     *)
(***************************************************************************)
EXTENDS Pager
=============================================================================
