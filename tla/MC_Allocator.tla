---------------------------- MODULE MC_Allocator ----------------------------
(***************************************************************************)
(* An instance of Allocator in which a header takes two addresses and a    *)
(* block is carved only when more than a header and one address is left.   *)
(* The heap is two regions of seven and nine addresses with a gap between  *)
(* them, and the requests are such that blocks are carved, taken whole     *)
(* with and without a rest, and not to be had.                             *)
(***************************************************************************)
EXTENDS Allocator
=============================================================================
