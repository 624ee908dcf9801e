SPECIFICATION Spec
CONSTANTS
  a1 = a1
  a2 = a2
  a3 = a3
  doc = doc
  other = other
  slot = slot
  Actions <- TrioActions
  Pea = {}
  Program <- TrioProgram
  Footprint <- TrioFootprint
  Resources = {doc}
  Slots <- TrioSlots
  Reconciles <- TrioReconciles
  MaxAttempts = 1
  MaxSteps = 3
  MaxCancels = 0
  MaxFaults = 1
  MaxRestarts = 1
INVARIANTS
  ClaimExclusivity
  Exclusion
  ReconciledIdle
CHECK_DEADLOCK FALSE
