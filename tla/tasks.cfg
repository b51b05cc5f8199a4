SPECIFICATION Spec
CONSTANTS
  r = r
  None = None
  MaxTasks = 3
  Runner = r
  Seconds = {1}
  MaxTime = 1
  MaxCalls = 1
INVARIANTS
  NothingDangling
  DoneIsBlocked
  ChildrenStop
  NobodyForgotten
CHECK_DEADLOCK FALSE
