CONSTANTS
  scheduler = scheduler
  front = front
  preExec = preExec
  custom = custom
  recorder = recorder
  panel = panel
  Callers <- TwoThreads
  EntryPoints <- TwoSubscribers
  FirstEvents <- SimulatorEvent
  LateEvents <- ModelEvent
  MaxDepth = 2
  MaxCalls = 6
SPECIFICATION FairEventSpec
INVARIANTS WalksAreProtected RequestsTakeEffect
PROPERTIES RequestsAreServed
CHECK_DEADLOCK FALSE
