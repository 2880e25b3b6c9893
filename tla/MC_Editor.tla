------------------------------ MODULE MC_Editor ------------------------------
(***************************************************************************)
(* Texts of up to MaxText characters, a cursor that wraps around after     *)
(* three steps, lines that fill the buffer with three letters, and a       *)
(* window smaller than the text.                                           *)
(***************************************************************************)
EXTENDS Editor

SmallFiles == {Absent} \cup BoundedSeq(Letter \cup {Newline}, 3)
=============================================================================
