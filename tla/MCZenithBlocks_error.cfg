SPECIFICATION Spec
CONSTANTS
  Workers = {w1}
  MaxHeight = 4
  Lookahead = 5
  Horizon = 10
  AuctionHeights = {2, 3, 5}
  UnreliableHeights = {2, 3, 4, 5}
INVARIANT ErrorsAreRequeried
CHECK_DEADLOCK FALSE
