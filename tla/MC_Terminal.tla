----------------------------- MODULE MC_Terminal -----------------------------
(***************************************************************************)
(* A screen of two rows of two columns, and the cell behind it.            *)
(***************************************************************************)
EXTENDS Terminal
=============================================================================
