SPECIFICATION Spec
CONSTANTS
  NoRequest = NoRequest
  AuthzRequests = {a1, a2}
  Workers = {w1, w2}
  MaxHeight = 3
  ArbProfit = 5
  RpcMayFail = TRUE
SYMMETRY Symmetry
INVARIANTS TypeOK CommittedOnlyWhenLanded
CHECK_DEADLOCK FALSE
