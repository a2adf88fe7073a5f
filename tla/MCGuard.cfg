SPECIFICATION FairSpec
CONSTANTS
  Requests = {r1, r2, r3}
  MaxRequests = 4
  MaxPolls = 2
INVARIANTS
  TypeOK
  RunsOnceUnlessFailed
  ReplayIsTrue
  SuccessIsRemembered
PROPERTIES
  EveryRequestAnswered
CHECK_DEADLOCK FALSE
