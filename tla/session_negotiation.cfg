SPECIFICATION Spec
CONSTANTS
  alice = alice
  bob = bob
  carol = carol
  home = home
  c1 = c1
  None = None
  Initiator = alice
  Responders = {bob, carol}
  Bare = {home}
  SameBare = {bob}
  Candidates = {c1}
  Watched = {}
  Verdicts = {"ok", "reject", "no_client", "bad_content"}
  Gingle = TRUE
  MaxBounces = 0
  Ending = {alice}
INVARIANTS
  AcceptAgreement
  RejectAgreement
  NothingHeldBack
  InitiateFindsNoSession
CHECK_DEADLOCK FALSE
