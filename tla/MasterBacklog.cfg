CONSTANTS
  N = 2
  Me = "h1"
  Code = "c1"
  MaxVersion = 1
  Capacity = 2
  AckCapacity = 2
  AcksFill = TRUE
  Faults <- NoFault
SPECIFICATION FairSpec
PROPERTY VectorArrives
CHECK_DEADLOCK FALSE
