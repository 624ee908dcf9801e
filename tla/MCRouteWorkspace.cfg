SPECIFICATION MCSpec
CONSTANTS
  None = None
  x = x
  y = y
  Paths <- MCPaths
  Values = {0, 1}
  Patches <- MCPatches
  Window = 3
  AckFrames = 3
  MaxAsides = 2
  MaxRequests = 4
  MaxRestores = 2
  MaxVisits = 2
  MaxCrashes = 1
  MaxFailures = 1
INVARIANTS
  RestoreHonest
  HistoryWhole
PROPERTIES
  OneRegister
  OldKept
  ViewCurrent
CHECK_DEADLOCK FALSE
