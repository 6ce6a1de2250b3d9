SPECIFICATION Spec
CONSTANTS
  Poller = {p1, p2}
  Request = {r1, r2}
  Junk = Junk
  NoId = NoId
  PageLimit = 1
  MaxPages = 3
  MaxBytes = 2
  InTime = 2
  Sizes = {1}
  MaxSeq = 2
SYMMETRY Symmetry
INVARIANTS CursorCovered NoHoles OneReviewPerRequest
PROPERTIES ReviewContract
