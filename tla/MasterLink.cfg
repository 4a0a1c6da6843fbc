CONSTANTS
  N = 3
  Me = "h1"
  Code = "c1"
  MaxVersion = 1
  Capacity = 2
  AckCapacity = 2
  AcksFill = FALSE
  Faults <- AllFaults
SPECIFICATION FairSpec
INVARIANTS ConnectedToCurrent SweepIsComplete
PROPERTIES VectorArrives StopHonoured
CHECK_DEADLOCK FALSE
