SPECIFICATION Spec
CONSTANTS
  Attempt = {a1, a2}
  Reconciler = {r1, r2}
  Text = {t1, t2}
  Null = Null
  MaxNonce = 3
SYMMETRY Symmetry
INVARIANTS StrongIsTrue NoncesDiffer RepeatsOverlap
PROPERTIES WeakenedByStaleOnly
CHECK_DEADLOCK FALSE
