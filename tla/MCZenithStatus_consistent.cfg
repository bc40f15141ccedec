SPECIFICATION StatusSpec
CONSTANTS
  NoRequest = NoRequest
  ZenithRequests = {r1}
  AuthzRequests = {}
  Workers = {w1}
  MaxHeight = 3
  Lookahead = 5
  AuctionHeights = {2, 3}
  Expiration <- MCExpiration
  Eligible = {r1}
  EstimatedFees = 2
  ArbProfit = 5
  RpcMayFail = FALSE
  FeedMayGap = FALSE
  ReplyMayBeLost = FALSE
SYMMETRY WorkerSymmetry
PROPERTY StatusIsConsistent
CHECK_DEADLOCK FALSE
