CONSTANTS
  s1 = s1
  s2 = s2
  h1 = h1
  Me = Me
  NoSession = NoSession
  Sessions <- TwoSessions
  Hosts <- OneHost
  IsMaster = TRUE
  HasMasters = TRUE
  MaxVersion = 1
  Changing <- OneHost
  Capacity = 1
  EmptyLimit = 0
  Stops = FALSE
  Commands <- ExportOnly
SPECIFICATION FairSpec
INVARIANT SessionsExclude
PROPERTIES OlderOnlyFromAbandoned KeepsRegister StoredInTheEnd
CHECK_DEADLOCK FALSE
