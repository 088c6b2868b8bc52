\* A message of two chunks and two small ones, which may be compressed.
SPECIFICATION Spec
CONSTANTS
  Peer <- MCPeer
  MAX_SUBCHANNELS = 2
  MaxFragments = 2
  MaxPayload = 5
  UseCompression = TRUE
  Background = TRUE
  NetMsg = {"signon", "info", "large1", "m1", "m2"}
  AsyncMsg = {}
  FileMsg = {}
  Garbage = "garbage"
  Size <- MCSize
  Source <- MCSource
  Signon <- MCSignon
  Clearing = {}
  Failing = {}
  MaxSeq <- ServerSends
  MaxChoked = 0
  MaxSent = 3
  MaxClears <- NoClear
CHECK_DEADLOCK FALSE
INVARIANTS
  TypeOK
  NothingLost
  AckedWasRead
  AckAccounting
PROPERTIES
  ImplementsReliableStream
