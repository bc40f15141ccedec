SPECIFICATION Spec
CONSTANTS
  Connections = {c1, c2}
  maxAllowedRequests = 3
  Backoff = 4
  MaxRequests = 7
  MaxTime = 6
SYMMETRY ConnectionSymmetry
INVARIANT LimitKept
PROPERTY BlockedOnlyAtLimit
CHECK_DEADLOCK FALSE
