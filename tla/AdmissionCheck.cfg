\* Two checks that share no placement; a1 may be pointed elsewhere.
SPECIFICATION FairSpec
CONSTANTS
  a1 = a1  a2 = a2  p1 = p1  p2 = p2  p3 = p3  c1 = c1  c2 = c2
  NoCheck = NoCheck  NoPlacement = NoPlacement  NoConfig = NoConfig
  Checks = {a1, a2}
  Placements = {p1, p2, p3}
  Clusters = {c1}
  Names <- NamesApart
  MaxEdits = 4
  MaxFailures = 1
INVARIANTS TypeOK NoLostWork
PROPERTIES PublishesDecisions ChecksConverge
\* Without checks the controller has nothing to do.
CHECK_DEADLOCK FALSE
