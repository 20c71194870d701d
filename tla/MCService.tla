----------------------------- MODULE MCService -----------------------------
(***************************************************************************)
(* Small instances of Service for TLC.                                     *)
(***************************************************************************)
EXTENDS Service, TLC

Symmetry == Permutations(Procs) \cup Permutations(Tokens)
              \cup Permutations(Passphrases) \cup Permutations(Slots)
              \cup Permutations(Projects)
=============================================================================
