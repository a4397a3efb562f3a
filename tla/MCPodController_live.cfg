SPECIFICATION FairSpec
CONSTANTS
  l1 = l1
  l2 = l2
  Limiters = {l1}
  Volumes = {v}
  Rows <- OnlyTight
  OneKi = 1
  OnePi = 2
  LastStage = 6
  MaxEdits = 3
  MaxRecords = 1
  MaxFaults = 1
  MaxFailovers = 1
  Reused = TRUE
PROPERTY EventuallyCompiled
CHECK_DEADLOCK FALSE
