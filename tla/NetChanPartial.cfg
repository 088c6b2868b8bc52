\* A message and the chunks of a file share datagrams; one of them is lost.
SPECIFICATION Spec
CONSTANTS
  Peer <- MCPeer
  MAX_SUBCHANNELS = 2
  MaxFragments = 2
  MaxPayload = 5
  UseCompression = FALSE
  Background = TRUE
  NetMsg = {"signon", "info", "m1"}
  AsyncMsg = {}
  FileMsg = {"avatar"}
  Garbage = "garbage"
  Size <- MCSize
  Source <- MCSource
  Signon <- MCSignon
  Clearing = {}
  Failing = {}
  MaxSeq <- ServerSends
  MaxChoked = 0
  MaxSent = 3
  MaxClears <- NoClear
CHECK_DEADLOCK FALSE
INVARIANTS
  HandledOnce
