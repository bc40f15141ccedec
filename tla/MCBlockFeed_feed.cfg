SPECIFICATION FairSpec
CONSTANTS
  MaxHeight = 3
  BlockTimes = {4, 6}
  Window = 2
  ExitAfterFails = 3
  MaxReconnects = 2
  Subscribers = 2
  LinkMayFail = TRUE
  MaxLag = 2
INVARIANTS FeedTypeOK AverageIsOfSamples NeverBeforeItsBlock
PROPERTIES SampledNeverPanics AllSubscribersCalled
CHECK_DEADLOCK FALSE
