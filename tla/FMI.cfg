CONSTANTS
  Var = {"in", "gain", "out", "wrong"}
  Attributes <- FourVariables
  Values = {0, 1}
  Settings <- SomeSettings
  Statuses = {"OK", "Warning", "Discard", "Pending", "Error"}
  Models <- ThreeModels
  Loader = "load"
  Offset <- Offsets
  Period <- Periods
  CommSteps = {1, 2}
  MaxPoint = 4
  MaxHolds = 1
SPECIFICATION FairSpec
INVARIANTS UnitIsInStep HostIsAlone
PROPERTIES StepsExecuteWhatIsDue EveryStepReturns
CHECK_DEADLOCK FALSE
