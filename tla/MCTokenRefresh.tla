-------------------------- MODULE MCTokenRefresh --------------------------
EXTENDS TokenRefresh, TLC

\* Revalidation handlers are interchangeable.
Symmetry == Permutations(Revalidators)
=============================================================================
