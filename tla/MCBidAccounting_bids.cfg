SPECIFICATION AccountingSpec
CONSTANTS
  AmountsIn = {0, 1, 1000, 2999}
  AmountsOut = {1000, 2400, 4376, 5051, 6001}
  RouteLengths = {0, 1, 2, 3, 4, 5, 6}
  Wallets = {0, 1, 600, 1000, 4000}
  BidPercents = {0, 1, 33, 90}
  MaxBids = {0, 501, 5000}
  Auctions <- MCAuctions
  MaxMsgs = 25
  UserFee = 7
INVARIANTS MessagesCoverTheSwap GasCoversMessages PaymentsWithinBid BooksMatchChain AllOrNothing
CHECK_DEADLOCK FALSE
