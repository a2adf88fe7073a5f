SPECIFICATION FinancedFairSpec
CONSTANTS
  i1 = i1
  r1 = r1
  r2 = r2
  r3 = r3
  k1 = k1
  k2 = k2
  Invoices = {i1}
  Requests = {r1, r2}
  MaxRequests = 3
  WithEmail = {i1}
  Payments <- MCPayments
  Assessments <- MCAssessments
  Expected = {1, 2}
INVARIANTS
  NoEndlessWait
PROPERTIES
  EveryRequestAnswered
CHECK_DEADLOCK FALSE
