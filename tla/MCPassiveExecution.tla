------------------------- MODULE MCPassiveExecution -------------------------
(* Executors and requests are interchangeable; the properties are safety.  *)
EXTENDS PassiveExecution, TLC

Symmetry == Permutations(Executor) \union Permutations(Request)
=============================================================================
