SPECIFICATION FairSpec
CONSTANTS
  o1 = o1
  o2 = o2
  Objects = {o1}
  Period = 2
  Base = 1
  Busy = 1
  MaxFails = 1
  MaxBackoff = 2
  Backoff <- Doubling
  MaxEvents = 2
PROPERTY SilenceDetected
