CONSTANTS
  front = front
  panel = panel
  Users <- TwoUsers
  UserCalls <- Roles
  EntryCalls = {"Hold", "Abort", "Add"}
  HoldAfterStart = TRUE
  MaxThreads = 3
  MaxCalls = 5
SPECIFICATION FairSpec
INVARIANTS OneSchedulerThread HoldIsSafe
PROPERTIES AbortIsFinal RunAndHoldEnd
CHECK_DEADLOCK FALSE
