SPECIFICATION Spec
CONSTANTS
  t1 = t1
  t2 = t2
  o1 = o1
  None = None
  Threads = {t1, t2}
  Outsiders = {o1}
  Starters = {t1}
  Stoppable = {t2}
  MaxMsgs = 3
INVARIANT NoLostWakeup
PROPERTY SendIsSynchronous
CHECK_DEADLOCK FALSE
