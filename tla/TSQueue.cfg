\* Three threads: a pushes twice, b pushes once and pops, c pops.
SPECIFICATION FairSpec
CONSTANTS
  a = a
  b = b
  c = c
  Threads = {a, b, c}
  Poppers = {b, c}
  MaxItems <- TwoAndOne
CHECK_DEADLOCK FALSE
INVARIANTS
  TypeOK
  ExactlyOnce
  NodesApart
  NullWhenEmpty
  InOrderUnlessBlind
PROPERTY
  EventuallyReturns
