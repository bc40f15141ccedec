SPECIFICATION Spec
CONSTANTS
  NoRequest = NoRequest
  AuthzRequests = {a1}
  Workers = {w1, w2}
  MaxHeight = 3
  ArbProfit = 5
  RpcMayFail = FALSE
INVARIANT FeesNotDoubled
CHECK_DEADLOCK FALSE
