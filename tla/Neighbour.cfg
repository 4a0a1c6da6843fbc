CONSTANTS
  Me = "h1"
  Peer = "h2"
  Unknown = "unknown"
  Code = "c1"
  EmptyLimit = 5
  PeerCodes <- MCPeerCodes
  Faults <- AllFaults
SPECIFICATION FairSpec
INVARIANTS StopAndWait ExchangeNeverStalls
PROPERTIES KeepsWatch UpIsCurrent LossIsReported UpIsReported LossIsNoticed StopAnsweredOutsideDial
CHECK_DEADLOCK FALSE
