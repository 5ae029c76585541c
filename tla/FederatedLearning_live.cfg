\* A LoadBalancer or a Flower training and a cluster that is selected and deselected.
SPECIFICATION FairSpec
CONSTANTS
  Gone = Gone  NoJob = NoJob  NoWork = NoWork  NoAddress = NoAddress
  c1 = c1  c2 = c2  a1 = a1
  Clusters = {c1}
  Claimed = {c1}
  Kinds = {"LoadBalancer", "Flower"}
  MinClients = 1
  Addresses = {a1}
  MaxEdits = 2
  MaxFailures = 1
  MaxRestarts = 0
PROPERTIES Settles
\* A training may end and nothing be left to do.
CHECK_DEADLOCK FALSE
