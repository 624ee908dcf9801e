SPECIFICATION MCSpec
CONSTANTS
  r1 = r1
  r2 = r2
  r3 = r3
  r4 = r4
  Requests <- MCRequests
  Journaled <- MCJournaled
  Interruptible <- Leavers
  None = None
  MAX_QUEUED_OPS = 2
  MaxConnections = 2
  MaxRevocations = 1
INVARIANTS
  Honest
  SerialUninterrupted
  LossIsReal
  DepthBounded
PROPERTIES
  FenceHolds
  EveryReports
CHECK_DEADLOCK FALSE
