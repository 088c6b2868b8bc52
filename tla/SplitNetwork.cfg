\* A network that loses, repeats and reorders parts; entries go stale.
SPECIFICATION Spec
CONSTANTS
  Parts <- TwoAndThree
  SplitSize <- TwoSizes
  Forced = {2}
  SplitRate = 1
  MaxQueued = 2
  Delay = 1
  IdleWait = 1
  TimeWidth = 1000
  StaleTime = 1
  InOrder = FALSE
  MaxTime = 1
  MaxCopies = 1
  MaxRestarts = 1
CHECK_DEADLOCK FALSE
INVARIANTS
  TypeOK
  WholeUntilRestart
