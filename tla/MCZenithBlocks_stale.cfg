SPECIFICATION Spec
CONSTANTS
  Workers = {w1, w2}
  MaxHeight = 4
  Lookahead = 5
  Horizon = 10
  AuctionHeights = {2, 3, 5}
  UnreliableHeights = {}
INVARIANT PastBlocksRemoved
CHECK_DEADLOCK FALSE
