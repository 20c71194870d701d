--------------------------- MODULE MCPrivateFile ---------------------------
(***************************************************************************)
(* Small instances of PrivateFile for TLC.                                 *)
(***************************************************************************)
EXTENDS PrivateFile, TLC

Symmetry == Permutations(Old) \cup Permutations(New)
=============================================================================
