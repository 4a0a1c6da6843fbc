CONSTANTS
  s1 = s1
  s2 = s2
  h1 = h1
  Me = Me
  NoSession = NoSession
  Sessions <- OneSession
  Hosts <- OneHost
  IsMaster = TRUE
  HasMasters = FALSE
  MaxVersion = 1
  Changing <- HostAndMe
  Capacity = 1
  EmptyLimit = 1
  Stops = TRUE
  Commands <- AllCommands
SPECIFICATION FairSpec
PROPERTIES StopReturns SessionsEnd
CHECK_DEADLOCK FALSE
