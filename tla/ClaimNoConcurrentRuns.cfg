SPECIFICATION Spec
CONSTANTS
  Requests = {r1, r2, r3}
  MaxRequests = 4
  MaxPolls = 2
SYMMETRY Symmetry
INVARIANTS
  NoConcurrentRuns
CHECK_DEADLOCK FALSE
