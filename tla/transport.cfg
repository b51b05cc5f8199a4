SPECIFICATION TransportSpec
CONSTANTS
    Names = {"rtp", "rtcp"}
    MaxCreates = 2
    MaxEvents = 2
INVARIANTS
  Held
  WritableIsOr
  Watched
  CandidatesGoOut
  SignalingComing
PROPERTY GoesWithLast
CHECK_DEADLOCK FALSE
