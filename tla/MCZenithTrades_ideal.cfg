SPECIFICATION FairSpec
CONSTANTS
  r1 = r1
  r2 = r2
  a1 = a1
  w1 = w1
  w2 = w2
  NoRequest = NoRequest
  ZenithRequests = {r1, r2}
  AuthzRequests = {a1}
  Workers = {w1}
  MaxHeight = 4
  Lookahead = 5
  AuctionHeights = {2, 3}
  Expiration <- MCExpiration
  Eligible = {r1}
  EstimatedFees = 2
  ArbProfit = 5
  RpcMayFail = FALSE
  FeedMayGap = FALSE
  ReplyMayBeLost = FALSE
INVARIANTS WonIsCommitted ZenithFeesExact AtMostOneWin NeverPanics
PROPERTIES RebidOnlyAfterLoss CommitIsStable ReportedHeightAdvances WonIsSettled KeepsPromise
CHECK_DEADLOCK FALSE
