SPECIFICATION Spec
CONSTANTS
  Connections = {c1, c2}
  maxAllowedRequests = 4
  Backoff = 1
  MaxRequests = 6
  MaxTime = 2
SYMMETRY ConnectionSymmetry
INVARIANT CountIsEarned
CHECK_DEADLOCK FALSE
