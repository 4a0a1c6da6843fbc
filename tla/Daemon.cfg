CONSTANTS
  n1 = n1
  Master = Master
  Neighbours <- OneNeighbour
  MaxReloads = 2
  MasterLists <- Sometimes
  Configurations <- Files
  Broken = Broken
  MaxEdits = 1
SPECIFICATION DaemonFairSpec
INVARIANTS OwnChannel RoutinesReplaced CanReply
PROPERTIES HangupHonoured InterruptEnds IndexPanicsOnlyAtReload
CHECK_DEADLOCK FALSE
