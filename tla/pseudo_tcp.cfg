SPECIFICATION Spec
CONSTANTS
  a = a
  b = b
  OpenerSends = 5
  OtherSends = 1
  Ends = {a, b}
  Opener = a
  Closers = {a}
  ToSend <- MCToSend
  Chunk = 3
  SndBuf = 4
  RcvBuf = 4
  WndUnit = 2
  Levels <- MCLevels
  PathMss = 2
  MaxXmit = 3
  MaxProbes = 1
  Nagling = TRUE
  SeqRange = 64
  MaxFaults = 1
INVARIANTS
  InOrder
  SegmentsMatch
  NoOverrun
  CloseDelivers
  NeverStuck
CHECK_DEADLOCK FALSE
