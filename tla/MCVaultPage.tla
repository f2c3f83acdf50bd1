---------------------------- MODULE MCVaultPage ----------------------------
(* Model values for VaultPage; vaults and codes are interchangeable.       *)
EXTENDS VaultPage, TLC

Symmetry == Permutations(Vaults) \cup Permutations(Codes)
=============================================================================
