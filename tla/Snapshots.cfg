\* A slot whose entity changes, leaves the view, is destroyed or replaced, twice; a full
\* update is requested at any moment.
SPECIFICATION FairSpec
CONSTANTS
  Slots = {1}
  Props = {p}
  Class <- Different
  Present = {1}
  MaxFrames = 3
  MaxTick = 3
  MaxChanges <- Twice
  MaxRequests = 1
  MaxToClient = 2
  MaxToServer = 2
CHECK_DEADLOCK FALSE
INVARIANTS
  TypeOK
  EntitiesAgree
  GoneWhenDestroyed
  NothingFails
  BaselinesAgree
PROPERTIES
  Resynchronised
