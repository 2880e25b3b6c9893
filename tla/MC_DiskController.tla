-------------------------- MODULE MC_DiskController --------------------------
(***************************************************************************)
(* Three pages over two frames, the second one flushed, and a disk of two  *)
(* sectors below the swap area.                                            *)
(***************************************************************************)
EXTENDS DiskController
=============================================================================
