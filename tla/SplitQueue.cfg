\* The thread or the host frame sends the queued parts, the network keeps the order.
SPECIFICATION FairSpec
CONSTANTS
  Parts <- ThreeThree
  SplitSize <- SameSize
  Forced = {}
  SplitRate = 1
  MaxQueued = 9
  Delay = 2
  IdleWait = 3
  TimeWidth = 1000
  StaleTime = 1000
  InOrder = TRUE
  MaxTime = 3
  MaxCopies = 0
  MaxRestarts = 0
CHECK_DEADLOCK FALSE
INVARIANTS
  NotInterleaved
  SentWhenDue
PROPERTIES
  EventuallyWhole
