\* Two names, tokens, duplicate summaries, a restart: who works on what.
SPECIFICATION Spec
CONSTANTS
  n1 = n1  n2 = n2  c1 = c1  c2 = c2  c3 = c3  s1 = s1  s2 = s2  k1 = k1
  ScoreNames = {n1, n2}
  Configs = {c1, c2, c3}
  ToPlacement = {}
  Series <- SomeSeries
  LabelKey <- OneKey
  SplitKey <- SplitS1
  ConfigMaps <- Duplicates
  NoConfigMap = NoConfigMap
  SanitizedName <- OwnResource
  Workers = {w1, w2, w3}
  NoWorker = NoWorker
  NoSummary = NoSummary
  MaxEdits = 2
  MaxCrashes = 1
INVARIANTS TypeOK LiveWorkersAreRegistered RegisteredWorkersRun ExportsLastRound
PROPERTIES StopsOnlyWithdrawn NamesHaveOneOwner
\* The ConfigMap may be gone for good: then the agent has nothing to do.
CHECK_DEADLOCK FALSE
SYMMETRY WorkerSymmetry
