SPECIFICATION Spec
CONSTANTS
  Run = {c1, c2, c3}
  Ours = Ours
  Other = Other
  Null = Null
SYMMETRY Symmetry
INVARIANTS AdvertisedWasTrue PublicationsAreTold
PROPERTIES MatchGivesWayToOverlap
CHECK_DEADLOCK FALSE
