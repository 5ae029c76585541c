\* The system may stop when the bounds are used up.
CHECK_DEADLOCK FALSE
SPECIFICATION FairSpec
CONSTANTS
  c1 = c1  u1 = u1  u2 = u2
  ProxyUrl = ProxyUrl  NoUrl = NoUrl
  NoCluster = NoCluster  NoKey = NoKey  NoSecret = NoSecret
  Clusters = {c1}
  Urls = {u1, u2}
  MaxEdits = 2
  MaxFailures = 1
INVARIANTS TypeOK GeneratedFollow CopiesFollow
PROPERTIES CredentialsConverge
