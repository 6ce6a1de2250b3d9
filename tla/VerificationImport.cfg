SPECIFICATION Spec
CONSTANTS
  Request = {q1, q2}
  Version = {v1, v2}
  Route = {g1, g2}
  Null = Null
  Preparer = {p1, p2, p3}
SYMMETRY Symmetry
INVARIANTS AnswersAreTrue
PROPERTIES KeepsFirst
CHECK_DEADLOCK FALSE
