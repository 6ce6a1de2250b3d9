SPECIFICATION DeliverySpec
CONSTANTS
  Attempt = {a1, a2}
  Reconciler = {r1}
  Text <- Texts
  Announcement = Announcement
  Null = Null
  MaxNonce = 2
  Request = {q1}
  Version = {v1, v2}
  Route = {g1}
  Executed = Executed
SYMMETRY Symmetry
INVARIANTS DeliveredIsOnRecord RepeatsOverlap
CHECK_DEADLOCK FALSE
