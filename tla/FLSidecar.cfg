SPECIFICATION FairSpec
CONSTANTS
  Loss = Loss
  Accuracy = Accuracy
  Odd = Odd
  Stamp = Stamp
  Contents <- ContentsDef
  Refused <- RefusedDef
  Partial = Partial
  NoFile = NoFile
  NoMetrics = NoMetrics
  Workers = {w1, w2}
  Nobody = Nobody
  MaxWrites = 2
  MaxEvents = 1
  MaxFailures = 1
INVARIANTS
  TypeOK
  ReporterFollowsFile
PROPERTIES
  MetricsAreSent
  EndsWithTraining
\* The sidecar ends.
CHECK_DEADLOCK FALSE
