SPECIFICATION Spec
CONSTANTS
  NoRequest = NoRequest
  AuthzRequests = {a1}
  Workers = {w1}
  MaxHeight = 4
  ArbProfit = 5
  RpcMayFail = FALSE
INVARIANT InitiatedMeansSent
CHECK_DEADLOCK FALSE
