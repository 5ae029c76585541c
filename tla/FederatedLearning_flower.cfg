\* A Flower training and one failing call.
SPECIFICATION Spec
CONSTANTS
  Gone = Gone  NoJob = NoJob  NoWork = NoWork  NoAddress = NoAddress
  c1 = c1  c2 = c2  a1 = a1
  Clusters = {c1, c2}
  Claimed = {c1}
  Kinds = {"Flower"}
  MinClients = 1
  Addresses = {a1}
  MaxEdits = 2
  MaxFailures = 1
  MaxRestarts = 0
PROPERTIES FlowerStaysRunning
\* A training may end and nothing be left to do.
CHECK_DEADLOCK FALSE
