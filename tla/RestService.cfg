CONSTANTS
  Worker = {w1, w2}
  None = None
  Paths <- SomePaths
  Fields <- SomeFields
  Values = {0, 1}
  Bodies <- SomeBodies
  Unit <- Units
  Half = 32
  MaxQueue = 2
SPECIFICATION FairRestSpec
INVARIANTS ReadsAreSafe ScheduledAsAsked
PROPERTIES EveryRequestIsAnswered
CHECK_DEADLOCK FALSE
