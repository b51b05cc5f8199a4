SPECIFICATION PingSpec
CONSTANTS
  p1 = p1
  p2 = p2
  a1 = a1
  a2 = a2
  None = None
  Ports = {p1}
  Candidates = {a1, a2}
  Network <- OneNetwork
  User <- SameUser
  Pref <- FirstPreferred
  Rtts = {5}
  DefaultRtt = 5
  MinImprovement = 1
  Failures = 1
  MaxSessions = 1
  OtherThread = FALSE
INVARIANTS TypeOK NothingStale
PROPERTY PingedInTurn
CHECK_DEADLOCK FALSE
