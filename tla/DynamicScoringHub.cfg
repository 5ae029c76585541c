\* One scorer, one cluster: edits and failed calls during checks and reconciles.
SPECIFICATION FairSpec
CONSTANTS
  Unset = Unset  NoConfig = NoConfig  NoScorer = NoScorer  NoWork = NoWork
  NoAnswer = NoAnswer
  h1 = h1  h2 = h2  c1 = c1  c2 = c2
  Scorers = {s1}
  Hosts = {h1, h2}
  Specs <- TwoSpecs
  Configs <- Served
  Answers <- FourAnswers
  EmptyConfig <- Empty
  Clusters = {c1}
  MaskSets <- TwoMasks
  MaxEdits = 3
  MaxFailures = 1
INVARIANTS TypeOK DeletedConfigLeavesNoWorks
PROPERTIES SyncedFromOwnApi WorksConverge
\* Without a config and without scorers the controller has nothing to do.
CHECK_DEADLOCK FALSE
