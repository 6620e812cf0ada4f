CONSTANTS
  t1 = t1
  t2 = t2
  t3 = t3
  Threads <- ThreeThreads
  Thresholds = {3}
  ResetInside = FALSE
  MaxGeneration = 6
SPECIFICATION FairSpec
INVARIANTS CountersAgree
PROPERTIES KeepsPromise OpenedLeave
CHECK_DEADLOCK FALSE
