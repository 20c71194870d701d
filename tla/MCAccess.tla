------------------------------ MODULE MCAccess ------------------------------
(***************************************************************************)
(* Small instances of Access for TLC.                                      *)
(***************************************************************************)
EXTENDS Access, TLC

Symmetry == Permutations(Tokens) \cup Permutations(Names)
              \cup Permutations(Projects) \cup Permutations(Slots)
=============================================================================
