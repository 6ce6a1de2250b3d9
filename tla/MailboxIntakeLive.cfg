SPECIFICATION FairSpec
CONSTANTS
  Poller = {p1, p2}
  Request = {}
  Junk = Junk
  NoId = NoId
  PageLimit = 1
  MaxPages = 3
  MaxBytes = 3
  InTime = 2
  Sizes = {1, 4}
  MaxSeq = 3
PROPERTIES EventuallyStored
