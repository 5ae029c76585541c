\* One training of each kind, two clusters of which one has the claim.
SPECIFICATION Spec
CONSTANTS
  Gone = Gone  NoJob = NoJob  NoWork = NoWork  NoAddress = NoAddress
  c1 = c1  c2 = c2  a1 = a1
  Clusters = {c1, c2}
  Claimed = {c1}
  Kinds = {"LoadBalancer", "NodePort", "Flower"}
  MinClients = 1
  Addresses = {a1}
  MaxEdits = 2
  MaxFailures = 1
  MaxRestarts = 1
INVARIANTS TypeOK ClientsFollowAddress LeavesOnlyLostWorks
PROPERTIES PhaseOrder
\* A training may end and nothing be left to do.
CHECK_DEADLOCK FALSE
