-------------------------- MODULE MCResultDelivery --------------------------
EXTENDS ResultDelivery, TLC

CONSTANT Announcement  \* the text of a post

Texts == Result \union {Announcement}

\* Attempts and results are interchangeable.
Symmetry == Permutations(Attempt) \union Permutations(Version)
=============================================================================
