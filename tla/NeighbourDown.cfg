CONSTANTS
  Me = "h1"
  Peer = "h2"
  Unknown = "unknown"
  Code = "c1"
  EmptyLimit = 5
  PeerCodes <- OneCode
  Faults <- ExitFault
SPECIFICATION FairSpec
PROPERTY DownIsReported
CHECK_DEADLOCK FALSE
