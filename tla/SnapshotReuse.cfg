\* A slot that the acknowledged frame does not reach is used, freed and reused at once.
SPECIFICATION Spec
CONSTANTS
  Slots = {1}
  Props = {p}
  Class <- Alike
  Present = {}
  MaxFrames = 4
  MaxTick = 4
  MaxChanges <- Twice
  MaxRequests = 0
  MaxToClient = 2
  MaxToServer = 2
INVARIANTS
  DeletedIsNotSent
CHECK_DEADLOCK FALSE
