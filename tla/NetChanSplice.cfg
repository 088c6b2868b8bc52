\* The server clears its channel and the header of its next large item is lost.
SPECIFICATION Spec
CONSTANTS
  Peer <- MCPeer
  MAX_SUBCHANNELS = 2
  MaxFragments = 2
  MaxPayload = 5
  UseCompression = FALSE
  Background = TRUE
  NetMsg = {"signon", "info", "large1", "mid"}
  AsyncMsg = {}
  FileMsg = {}
  Garbage = "garbage"
  Size <- MCSize
  Source <- MCSource
  Signon <- MCSignon
  Clearing = {"signon"}
  Failing = {}
  MaxSeq <- ServerSends
  MaxChoked = 0
  MaxSent = 3
  MaxClears <- ServerClear
CHECK_DEADLOCK FALSE
INVARIANTS
  NeverSpliced
