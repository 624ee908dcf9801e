SPECIFICATION FairSpec
CONSTANTS
  main = main
  child = child
  lone = lone
  w1 = w1
  w2 = w2
  w3 = w3
  Runs <- MCRuns
  RootOf <- MCRootOf
  Commands <- MCCommands
  RunOf <- MCRunOf
INVARIANTS
  Consented
  NoneStranded
  AuthorizedFinish
PROPERTIES
  OneAnswer
  EveryAnswered
CHECK_DEADLOCK FALSE
