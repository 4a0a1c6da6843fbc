CONSTANTS
  p1 = p1
  p2 = p2
  p3 = p3
  Nobody = Nobody
  Pids <- ThreePids
  Masters = 2
  MaxFaults = 1
  MaxByHand = 1
  MaxCommands = 1
SPECIFICATION FairSpec
PROPERTIES SignalArrives UpdateTriesAll ReachStays ServiceSettles
CHECK_DEADLOCK FALSE
