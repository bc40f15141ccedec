SPECIFICATION FairSpec
CONSTANTS
  NoRequest = NoRequest
  AuthzRequests = {a1, a2}
  Workers = {w1}
  MaxHeight = 4
  ArbProfit = 5
  RpcMayFail = FALSE
INVARIANTS NeverPanics FeesOfSuccessExact
PROPERTY LandedIsSummarised
CHECK_DEADLOCK FALSE
