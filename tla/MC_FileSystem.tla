--------------------------- MODULE MC_FileSystem ---------------------------
(* Instances of FileSystem for TLC. *)
EXTENDS FileSystem, TLC

Alike == Permutations(Name)
=============================================================================
