\* The server clears its channel in the middle of a transfer; a file, choked frames and a handler that fails.
SPECIFICATION Spec
CONSTANTS
  Peer <- MCPeer
  MAX_SUBCHANNELS = 2
  MaxFragments = 2
  MaxPayload = 5
  UseCompression = FALSE
  Background = TRUE
  NetMsg = {"signon", "info", "large1"}
  AsyncMsg = {}
  FileMsg = {"icon"}
  Garbage = "garbage"
  Size <- MCSize
  Source <- MCSource
  Signon <- MCSignon
  Clearing = {"signon"}
  Failing = {"large1"}
  MaxSeq <- ServerSends
  MaxChoked = 1
  MaxSent = 1
  MaxClears <- ServerClear
CHECK_DEADLOCK FALSE
INVARIANTS
  SequenceInv
  SubchannelInv
  HeaderConsistent
  InOrderUnlessFailed
