SPECIFICATION MCSpec
CONSTANTS
  None = None
  SegmentSize = 2
  MaxSegments = 2
  Oversize = {2}
  BodyEvents = {1}
  LogFrames = 2
  MaxSeq = 3
  MaxId = 5
  MaxWire = 1
  MaxCrashes = 1
  MaxDrops = 1
  MaxResyncs = 1
  MaxForgets = 1
INVARIANTS
  Replayable
  CursorSafe
  NoHole
PROPERTIES
  NeverBack
  CatchesUp
CHECK_DEADLOCK FALSE
