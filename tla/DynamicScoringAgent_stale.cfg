\* One name whose config changes.
SPECIFICATION FairSpec
CONSTANTS
  n1 = n1  n2 = n2  c1 = c1  c2 = c2  c3 = c3  s1 = s1  s2 = s2  k1 = k1
  ScoreNames = {n1}
  Configs = {c1, c2}
  ToPlacement = {}
  Series <- NoSeries
  LabelKey <- OneKey
  SplitKey <- SplitS1
  ConfigMaps <- OneName
  NoConfigMap = NoConfigMap
  SanitizedName <- OwnResource
  Workers = {w1, w2}
  NoWorker = NoWorker
  NoSummary = NoSummary
  MaxEdits = 1
  MaxCrashes = 0
PROPERTIES UpdatesReachWorkers
\* The ConfigMap may be gone for good: then the agent has nothing to do.
CHECK_DEADLOCK FALSE
