----------------------------- MODULE MCVaultSync -----------------------------
EXTENDS VaultSync, TLC

CONSTANTS a, b
Symmetry == Permutations({a, b})
=============================================================================
