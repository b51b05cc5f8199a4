SPECIFICATION Spec
CONSTANTS
  p1 = p1
  p2 = p2
  a1 = a1
  a2 = a2
  None = None
  Ports = {p1}
  Candidates = {a1}
  Network <- OneNetwork
  User <- SameUser
  Pref <- FirstPreferred
  Rtts = {5, 6}
  DefaultRtt = 5
  MinImprovement = 1
  Failures = 2
  MaxSessions = 3
  OtherThread = TRUE
INVARIANTS AllocationComing
CHECK_DEADLOCK FALSE
