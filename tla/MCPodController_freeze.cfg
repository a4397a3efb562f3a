SPECIFICATION Spec
CONSTANTS
  l1 = l1
  l2 = l2
  Limiters = {l1}
  Volumes = {v, w}
  Rows <- TightTypo
  OneKi = 1
  OnePi = 2
  LastStage = 3
  MaxEdits = 3
  MaxRecords = 0
  MaxFaults = 0
  MaxFailovers = 0
  Reused = FALSE
PROPERTY FreezeNeverLoosens
CHECK_DEADLOCK FALSE
