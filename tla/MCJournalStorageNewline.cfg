SPECIFICATION Spec
CONSTANTS
  r1 = r1
  r2 = r2
  Ids <- MCIds
  Floor = 1
  Cuts = {"newline"}
  MaxRevision = 3
  MaxCrashes = 1
  MaxFaults = 0
SYMMETRY Symmetry
INVARIANTS
  CommandsKept
CHECK_DEADLOCK FALSE
