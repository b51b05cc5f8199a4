SPECIFICATION FairSpec
CONSTANTS
  t1 = t1
  t2 = t2
  None = None
  Threads = {t1, t2}
  Starters = {t1, t2}
  Outsiders = {}
  Stoppable = {}
  MaxMsgs = 3
PROPERTIES
  SendsReturn
  PostsDelivered
CHECK_DEADLOCK FALSE
