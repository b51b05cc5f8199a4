SPECIFICATION Spec
CONSTANTS
  t1 = t1
  t2 = t2
  h1 = h1
  h2 = h2
  None = None
  Threads = {t1, t2}
  Readers = {t1}
  Handlers = {h1, h2}
  Disposables = {h1}
  Busy = {h1}
  Delays = {1, 2}
  TimeRange = 16
  Start = 0
  Span = 2
  MaxMsgs = 3
INVARIANTS
  WakesInTime
  NoneForDead
  OnlyDisposeDeadlocks
PROPERTY DeliversInOrder
CHECK_DEADLOCK FALSE
