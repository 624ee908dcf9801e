SPECIFICATION Spec
CONSTANTS
  a1 = a1
  a2 = a2
  a3 = a3
  doc = doc
  other = other
  slot = slot
  Actions <- PairActions
  Pea = {a2}
  Program <- ConvenienceProgram
  Footprint <- PairFootprint
  Resources = {doc}
  Slots <- PairNothing
  Reconciles <- PairNothing
  MaxAttempts = 0
  MaxSteps = 3
  MaxCancels = 0
  MaxFaults = 0
  MaxRestarts = 0
PROPERTIES
  ConvenienceHarmless
CHECK_DEADLOCK FALSE
