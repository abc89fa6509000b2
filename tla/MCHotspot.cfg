SPECIFICATION FairSpec
CONSTANTS
  t1 = t1
  t2 = t2
  w1 = w1
  w2 = w2
  Tasks <- TwoTasks
  Workers <- TwoWorkers
  KeyFirst <- PresentOrAbsent
  MaxFaults = 3
INVARIANTS VersionCounts DonePerturbs
PROPERTY WorkEnds
CHECK_DEADLOCK FALSE
