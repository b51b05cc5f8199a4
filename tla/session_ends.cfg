SPECIFICATION EndingSpec
CONSTANTS
  alice = alice
  bob = bob
  None = None
  Initiator = alice
  Responders = {bob}
  Bare = {}
  SameBare = {}
  Candidates = {}
  Watched = {bob}
  Verdicts = {"ok", "reject"}
  Gingle = TRUE
  MaxBounces = 1
  Ending = {}
PROPERTY SessionsEnd
CHECK_DEADLOCK FALSE
