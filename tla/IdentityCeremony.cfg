SPECIFICATION CeremonySpec
CONSTANTS
  Ceremony = {c1, c2, c3}
  Nobody = Nobody
SYMMETRY Symmetry
INVARIANTS CreatedStays FailureLeavesNothing
PROPERTIES KeptFromStrangers
CHECK_DEADLOCK FALSE
