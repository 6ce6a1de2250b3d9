-------------------------- MODULE MCSignedPosting --------------------------
EXTENDS SignedPosting, TLC

\* Sends, reconciling processes and texts are interchangeable.
Symmetry == Permutations(Attempt) \union Permutations(Reconciler) \union Permutations(Text)
=============================================================================
