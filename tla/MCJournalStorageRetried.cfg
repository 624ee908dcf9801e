SPECIFICATION Spec
CONSTANTS
  r1 = r1
  r2 = r2
  Ids <- MCIds
  Floor = 1
  Cuts = {"inside", "failed"}
  MaxRevision = 3
  MaxCrashes = 2
  MaxFaults = 2
SYMMETRY Symmetry
INVARIANT
  Acknowledged
PROPERTY
  ImplementsStore
CHECK_DEADLOCK FALSE
