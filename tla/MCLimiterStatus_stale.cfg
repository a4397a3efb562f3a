SPECIFICATION FairSpec
CONSTANTS
  p1 = p1
  Pods = {p1}
  Kinds = {"match"}
  LateClaims = {}
  MaxEdits = 1
  MaxFaults = 0
PROPERTY EventuallyReported
CHECK_DEADLOCK FALSE
