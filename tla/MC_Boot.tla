------------------------------- MODULE MC_Boot -------------------------------
(***************************************************************************)
(* The pages the ROM uses before it jumps (0, that of its stack, that of   *)
(* the event queue) and two spare frames; byte 1 and byte 2 are contents   *)
(* of two bootable sectors.                                                *)
(***************************************************************************)
EXTENDS Boot

ASSUME BootAssumption
=============================================================================
