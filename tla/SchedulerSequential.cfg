CONSTANTS
  DurationMax = 4
  MaxEvents = 4
  AutoStop = {TRUE}
  RelTimes <- NowSoonNever
  Cycles <- SomeCycles
  Repeats <- SomeRepeats
  CallSites <- InSync
  Calls <- Defined
  RestoreTimes = {}
SPECIFICATION Spec
INVARIANTS QueueIsAhead
PROPERTY StepsAreOnTime
CHECK_DEADLOCK FALSE
