SPECIFICATION Spec
CONSTANTS
  i1 = i1
  r1 = r1
  r2 = r2
  k1 = k1
  k2 = k2
  Invoices = {i1}
  Requests = {r1, r2}
  MaxRequests = 6
  WithEmail = {i1}
  Payments <- MCPayments
  Assessments <- MCAssessments
  Expected = {1, 2}
SYMMETRY Symmetry
INVARIANTS
  TypeOK
  StatusIsProjection
  JobsFollowCommits
  FinancingHasCollateral
CHECK_DEADLOCK FALSE
