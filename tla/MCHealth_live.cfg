SPECIFICATION FairSpec
CONSTANTS
  o1 = o1
  o2 = o2
  Objects = {o1, o2}
  Period = 2
  Base = 1
  Busy = 1
  MaxFails = 3
  MaxBackoff = 8
  Backoff <- Doubling
  MaxEvents = 3
INVARIANTS TypeOK NeverForgotten NoFalseAlarm
PROPERTIES WedgeDetected EventuallyHealthy
