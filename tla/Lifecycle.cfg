CONSTANTS
  None = None
  s1 = s1
  s2 = s2
  m1 = m1
  m2 = m2
  x = x
  e1 = e1
  e2 = e2
  main = main
  panel = panel
  engine = engine
  Component = {s1, s2, m1, m2, x}
  EntryPoint = {e1, e2}
  Actor = {main, panel, engine}
  Main = main
  FirstMembers <- MCFirst
  Places <- MCPlaces
  Replaces <- MCReplaces
  UserCalls <- MCUserCalls
  ClientCalls <- MCClientCalls
  Subscribed <- MCSubscribed
  MaxCalls = 2
SYMMETRY MCSymmetry
SPECIFICATION Spec
CHECK_DEADLOCK FALSE
INVARIANTS ParentsFirst PhasesAreComplete
