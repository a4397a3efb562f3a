SPECIFICATION Spec
CONSTANTS
  l1 = l1
  l2 = l2
  Limiters = {l1}
  Volumes = {v}
  Rows <- TightTypo
  OneKi = 1
  OnePi = 2
  LastStage = 3
  MaxEdits = 1
  MaxRecords = 1
  MaxFaults = 0
  MaxFailovers = 1
  Reused = TRUE
PROPERTY NoRuleAbandoned
CHECK_DEADLOCK FALSE
