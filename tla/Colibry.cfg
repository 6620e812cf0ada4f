CONSTANTS
  s1 = s1
  i1 = i1
  n1 = n1
  t1 = t1
  u1 = u1
  Field = {n1, t1, u1}
  Shape <- Shapes
  Linked <- Ports
  Formats = {"csv", "hdf5"}
  Periodic = {s1}
  Assembled <- Script
  Subscriptions <- Handlers
  Instant = {i1}
  Event = {"go", "halt"}
  Offsets <- SomeOffsets
  CycleTimes = {0, 3}
  Repeats <- SomeRepeats
  Delays = {0, 1}
  MaxEvents = 6
  Period = 2
  Second = 3
  Threshold = 1
  StartSec = {TRUE, FALSE}
  Late = 1
  MaxWall = 7
  Installations <- Built
  TriggerAt = "event"
  Emitted <- TriggerEmits
  Values = {0, 1}
  MaxTime = 3
  MaxCalls = 3
  MaxRuns = 2
SPECIFICATION FairSpec
INVARIANTS NotifiedIsTheOneRun AnnouncementsAgree NoDrift RecordsAreKept
PROPERTIES EventsCommandSchedules HoldIsPrompt
CHECK_DEADLOCK FALSE
