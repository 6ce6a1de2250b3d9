------------------------ MODULE MCVerificationImport ------------------------
EXTENDS VerificationImport, TLC

\* Preparations, results and routes are interchangeable.
Symmetry == Permutations(Preparer) \union Permutations(Version) \union Permutations(Route)
=============================================================================
