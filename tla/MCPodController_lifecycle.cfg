SPECIFICATION Spec
CONSTANTS
  l1 = l1
  l2 = l2
  Limiters = {l1, l2}
  Volumes = {v}
  Rows <- TightTypo
  OneKi = 1
  OnePi = 2
  LastStage = 6
  MaxEdits = 3
  MaxRecords = 2
  MaxFaults = 1
  MaxFailovers = 0
  Reused = FALSE
SYMMETRY Swap
INVARIANTS TypeOK OwnContribution
PROPERTIES NoRuleAbandoned KeepsHandshake
CHECK_DEADLOCK FALSE
