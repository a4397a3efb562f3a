SPECIFICATION FairSpec
CONSTANTS
  p1 = p1
  Pods = {p1}
  Kinds = {"match", "absent", "other", "invalid"}
  LateClaims = {p1}
  MaxEdits = 2
  MaxFaults = 1
INVARIANTS TypeOK SelectorTrue
PROPERTIES ConditionSurvives EventuallyMeasured
CHECK_DEADLOCK FALSE
