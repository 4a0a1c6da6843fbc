CONSTANTS
  SectorNames <- MCSectorNames
  Hostnames <- MCHostnames
  Me = "h1"
  Addresses <- MCAddresses
  Files <- MCFiles
  MaxHostCnt = 3
  MaxLoads = 2
  ChannelNames <- MCChannels
  Timeouts <- MCTimeouts
  DefaultTimeout = "t1"
  DefaultCount = 1
  Unnamed = Unnamed
  Disks <- MCDisks
SPECIFICATION LoaderSpec
INVARIANTS SlotPerNeighbour PanicsOnlyInShortSector WatchesItsRing ChannelsFollowAgent ReloadIsStable
CHECK_DEADLOCK FALSE
