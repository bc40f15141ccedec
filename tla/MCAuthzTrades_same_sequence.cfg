SPECIFICATION Spec
CONSTANTS
  NoRequest = NoRequest
  AuthzRequests = {a1, a2}
  Workers = {w1}
  MaxHeight = 3
  ArbProfit = 5
  RpcMayFail = FALSE
INVARIANT TrackedWasAccepted
CHECK_DEADLOCK FALSE
