CONSTANTS
  r1 = r1
  r2 = r2
  Nothing = Nothing
  Reports <- Pair
  Deliverable <- First
  Unconfigured <- Second
  MaxCrashes = 1
  Faults <- AllFaults
SPECIFICATION Spec
INVARIANTS OneSender FlagHasOwner
CHECK_DEADLOCK FALSE
