------------------------------- MODULE MCVault -------------------------------
(***************************************************************************)
(* Small instances of Vault for TLC.                                       *)
(***************************************************************************)
EXTENDS VaultProps, TLC

\* The elements of these sets are interchangeable and no property names one;
\* used by the runs that check no liveness.
Symmetry == Permutations(Procs) \cup Permutations(Salts)
              \cup Permutations(Passphrases) \cup Permutations(Slots)
              \cup Permutations(Values) \cup Permutations(SecretKeys)
              \cup Permutations(Projects)
=============================================================================
