SPECIFICATION Spec
CONSTANTS
  r1 = r1
  r2 = r2
  a1 = a1
  w1 = w1
  w2 = w2
  NoRequest = NoRequest
  ZenithRequests = {r1}
  AuthzRequests = {}
  Workers = {w1}
  MaxHeight = 4
  Lookahead = 5
  AuctionHeights = {2, 3, 4}
  Expiration <- MCExpiration
  Eligible = {r1}
  EstimatedFees = 2
  ArbProfit = 5
  RpcMayFail = FALSE
  FeedMayGap = TRUE
  ReplyMayBeLost = FALSE
PROPERTY RebidOnlyAfterLoss
CHECK_DEADLOCK FALSE
