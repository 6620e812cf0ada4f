CONSTANTS
  DurationMax = 3
  MaxEvents = 4
  AutoStop = {TRUE, FALSE}
  RelTimes <- NowSoonNever
  Cycles <- AnyCycles
  Repeats <- AnyRepeats
  CallSites <- Site
  Calls <- AllCalls
  RestoreTimes = {0, 2}
SPECIFICATION Spec
INVARIANTS TypeOK
PROPERTIES TimeIsKept
CHECK_DEADLOCK FALSE
