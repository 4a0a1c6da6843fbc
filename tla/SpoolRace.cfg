CONSTANTS
  r1 = r1
  r2 = r2
  Nothing = Nothing
  Reports <- Pair
  Deliverable <- Pair
  Unconfigured <- NoReport
  MaxCrashes = 0
  Faults <- Racing
SPECIFICATION FairSpec
PROPERTY EveryReportIsSent
CHECK_DEADLOCK FALSE
