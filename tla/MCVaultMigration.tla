-------------------------- MODULE MCVaultMigration --------------------------
(* Model-checking definitions for VaultMigration. *)
EXTENDS VaultMigration, TLC

\* An entry alone, or one that hides the file; a file alone is what a failed
\* read of the second leaves to see.
SomeLayouts == {<<0, None>>, <<Bare, 0>>}

\* No entry, a copy of an account's token, or the token of another login.
SomeStandards == [own : Accounts, gen : {0, None}] \cup {None}

Symmetry == Permutations(Accounts)

=============================================================================
