------------------------- MODULE MCIdentityCeremony -------------------------
EXTENDS IdentityCeremony, TLC

\* Ceremonies are interchangeable.
Symmetry == Permutations(Ceremony)
=============================================================================
