SPECIFICATION Spec
CONSTANTS
  Workers = {w1, w2}
  MaxHeight = 5
  Lookahead = 5
  Horizon = 3
  AuctionHeights = {2, 3, 5, 6, 7}
  UnreliableHeights = {4, 6}
SYMMETRY WorkerSymmetry
INVARIANTS NextAuctionsListed SerialPastRemoved
CHECK_DEADLOCK FALSE
