SPECIFICATION FairSpec
CONSTANTS
  alice = alice
  bob = bob
  c1 = c1
  None = None
  Initiator = alice
  Responders = {bob}
  Bare = {}
  SameBare = {}
  Candidates = {c1}
  Watched = {}
  Verdicts = {"ok"}
  Gingle = FALSE
  MaxBounces = 0
  Ending = {}
INVARIANT CandidatesAfterInitiate
PROPERTY CandidatesArrive
CHECK_DEADLOCK FALSE
