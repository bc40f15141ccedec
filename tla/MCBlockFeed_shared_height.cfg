SPECIFICATION Spec
CONSTANTS
  MaxHeight = 4
  BlockTimes = {4, 6}
  Window = 2
  ExitAfterFails = 4
  MaxReconnects = 2
  Subscribers = 2
  LinkMayFail = FALSE
  MaxLag = 0
INVARIANT EveryBlockIsNotified
CHECK_DEADLOCK FALSE
