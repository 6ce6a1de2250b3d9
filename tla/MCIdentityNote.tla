--------------------------- MODULE MCIdentityNote ---------------------------
EXTENDS IdentityNote, TLC

\* Runs are interchangeable.
Symmetry == Permutations(Run)
=============================================================================
