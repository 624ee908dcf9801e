SPECIFICATION Spec
CONSTANTS
  r1 = r1
  r2 = r2
  Ids <- MCIds
  Floor = 1
  Cuts = {"inside", "failed"}
  MaxRevision = 3
  MaxCrashes = 0
  MaxFaults = 1
SYMMETRY Symmetry
INVARIANTS
  CommandsKept
CHECK_DEADLOCK FALSE
