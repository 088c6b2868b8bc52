SPECIFICATION FairSpec
CONSTANTS
  Threads = {w1, w2, master, handler}
  Handlers = {handler}
  Jobs = {read, task}
  IO = {read}
  Serial = {task}
  Raised = {read}
  Handed = {read}
  NumPriorities = 2
  Workers = {w1, w2}
  Queues = {w1, w2, shared}
  First = w1
  Shared = shared
  Master = master
  Priority <- LowPriority
  None = None
  MaxCalls = 1
INVARIANTS TypeOK ServedOnce PopFindsItem QuietWhileSuspended DrainFindsJob FinishedOnReturn
PROPERTY EventuallySettled
CHECK_DEADLOCK FALSE
