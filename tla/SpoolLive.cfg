CONSTANTS
  r1 = r1
  r2 = r2
  Nothing = Nothing
  Reports <- Pair
  Deliverable <- Pair
  Unconfigured <- NoReport
  MaxCrashes = 1
  Faults <- Truthful
SPECIFICATION FairSpec
INVARIANT AtMostOnce
PROPERTIES KeepsPromise SentUnlessStuck StopReturnsUnlessStuck
CHECK_DEADLOCK FALSE
