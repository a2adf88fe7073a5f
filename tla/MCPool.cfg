SPECIFICATION FairSpec
CONSTANTS
  Requests = {r1, r2, r3}
  Operations <- MCOperations
  PoolMax = 2
  MaxOutages = 1
INVARIANTS
  TypeOK
  NoClientLeaks
  StuckOnlyByNesting
PROPERTIES
  EveryRequestEnds
CHECK_DEADLOCK FALSE
