SPECIFICATION FairSpec
CONSTANTS
  TlsOptions = {"disabled", "enabled", "required"}
  FeatureSets = {{"tls"}, {"tls", "sasl"}, {"sasl"}, {"bind"}, {"sasl", "bind"}}
  MaxSends = 4
  MaxOutput = 4
INVARIANTS
  KeptInOrder
  NothingStuck
  AuthAfterProceed
  ToldOnce
PROPERTIES
  FreshStream
  ClosedIsDeleted
CHECK_DEADLOCK FALSE
