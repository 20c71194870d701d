--------------------------- MODULE MCOfflineCache ---------------------------
(***************************************************************************)
(* Small instances of OfflineCache for TLC.                                *)
(***************************************************************************)
EXTENDS OfflineCache, TLC

Symmetry == Permutations(Procs) \cup Permutations(Tokens)
              \cup Permutations(Projects)
=============================================================================
