SPECIFICATION Spec
CONSTANTS
  Attempt = {a1}
  Reconciler = {r1, r2}
  Text = {t1}
  Null = Null
  MaxNonce = 1
PROPERTIES StrongPreserved
CHECK_DEADLOCK FALSE
