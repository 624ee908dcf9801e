SPECIFICATION FairSpec
CONSTANTS
  a1 = a1
  a2 = a2
  a3 = a3
  doc = doc
  other = other
  slot = slot
  Actions <- PairActions
  Pea = {a2}
  Program <- ContractProgram
  Footprint <- PairFootprint
  Resources = {doc, other}
  Slots <- PairNothing
  Reconciles <- PairNothing
  MaxAttempts = 1
  MaxSteps = 3
  MaxCancels = 1
  MaxFaults = 1
  MaxRestarts = 1
INVARIANTS
  NoOverlapInFlight
  ReceiptHonest
  AtMostOnce
PROPERTIES
  EverySettles
  NoSendAfterCancel
  SuccessKept
  ImplementsContract
CHECK_DEADLOCK FALSE
