CONSTANTS
  MaxRuns = 2
  MaxRounds = 3
  Outputs <- FieldsOut
  Inputs <- FieldsIn
SPECIFICATION FairSpec
INVARIANTS DataAreShared SlaveFollowsMaster
PROPERTIES NobodyIsLeftWaiting
CHECK_DEADLOCK FALSE
