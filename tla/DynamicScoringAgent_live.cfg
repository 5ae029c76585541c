\* One name with a token, two edits: what happens in the end.
SPECIFICATION FairSpec
CONSTANTS
  n1 = n1  n2 = n2  c1 = c1  c2 = c2  c3 = c3  s1 = s1  s2 = s2  k1 = k1
  ScoreNames = {n1}
  Configs = {c1, c2}
  ToPlacement = {c1}
  Series <- NoSeries
  LabelKey <- OneKey
  SplitKey <- SplitS1
  ConfigMaps <- OneToken
  NoConfigMap = NoConfigMap
  SanitizedName <- OwnResource
  Workers = {w1, w2}
  NoWorker = NoWorker
  NoSummary = NoSummary
  MaxEdits = 2
  MaxCrashes = 0
PROPERTIES WorkersConverge ScoresReachTheHub
\* The ConfigMap may be gone for good: then the agent has nothing to do.
CHECK_DEADLOCK FALSE
