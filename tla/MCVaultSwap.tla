---------------------------- MODULE MCVaultSwap ----------------------------
(* Model-checking definitions for VaultSwap. *)
EXTENDS VaultSwap, TLC

Symmetry == Permutations(Accounts) \cup Permutations(Workers)

=============================================================================
