--------------------------- MODULE MCBrowserVault ---------------------------
(* Model values for BrowserVault; tasks and ids are interchangeable.       *)
EXTENDS BrowserVault, TLC

Symmetry == Permutations(Tasks) \cup Permutations(Ids)
=============================================================================
