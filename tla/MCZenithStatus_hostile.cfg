SPECIFICATION StatusSpec
CONSTANTS
  NoRequest = NoRequest
  ZenithRequests = {r1}
  AuthzRequests = {}
  Workers = {w1, w2}
  MaxHeight = 3
  Lookahead = 5
  AuctionHeights = {2, 3}
  Expiration <- MCExpiration
  Eligible = {r1}
  EstimatedFees = 0
  ArbProfit = 5
  RpcMayFail = TRUE
  FeedMayGap = TRUE
  ReplyMayBeLost = TRUE
SYMMETRY WorkerSymmetry
INVARIANTS StatusTypeOK CommittedHasEvidence TracksPlacedBids
PROPERTIES NotWaitingShowsItsBid ReportedCommitIsTrue
CHECK_DEADLOCK FALSE
