SPECIFICATION Spec
CONSTANTS
  typed = typed
  lower = lower
  Requests = {r1, r2}
  MaxRequests = 4
  Addresses = {typed, lower}
  Lower <- MCLower
  Gstins = {g1}
  Passwords = {p1, p2}
SYMMETRY Symmetry
INVARIANTS
  TypeOK
  TokenIsOwners
  OrphanNeedsRaceOrFailure
CHECK_DEADLOCK FALSE
