CONSTANTS
  DurationMax = 5
  MaxEvents = 4
  AutoStop = {TRUE}
  RelTimes <- PlanRelTimes
  Cycles <- PlanCycles
  Repeats <- PlanRepeats
  CallSites <- PlanSites
  Calls <- AllPlanCalls
  RestoreTimes = {}
  Dates <- PlanDates
  MaxChanges = 1
SPECIFICATION PlanSpec
INVARIANTS RunsAsPlanned
PROPERTIES RunCompletesThePlans
CHECK_DEADLOCK FALSE
