SPECIFICATION FairSpec
CONSTANTS
  a = a
  b = b
  c = c
  disk = disk
  Volumes = {a, b, c}
  Devices = {disk}
  NoDevice = noDevice
  DeviceOf <- OneDisk
  Keys = {"rbps", "wiops"}
  Limits = {1, 2}
  Specs <- Crossed
  Flaky = {}
  MaxChanges = 2
  MaxFaults = 1
INVARIANT Truthful
PROPERTIES DeletionCompletes EventuallySettled
CHECK_DEADLOCK FALSE
