\* One client that connects twice to a server that changes the map twice.
SPECIFICATION FairSpec
CONSTANTS
  MaxRetry = 1
  MaxSpawn = 3
  MaxConnect = 2
  MaxLoose = 2
CHECK_DEADLOCK FALSE
INVARIANTS
  TypeOK
  InGameTogether
  ResourcesFirst
PROPERTIES
  RefusedOnlyWhenOvertaken
  InGameUntilChange
  EventuallyInGame
