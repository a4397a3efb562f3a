SPECIFICATION Spec
CONSTANTS
  a = a
  b = b
  c = c
  disk = disk
  Volumes = {a}
  Devices = {disk}
  NoDevice = noDevice
  DeviceOf <- OneDisk
  Keys = {"rbps"}
  Limits = {1}
  Specs <- AnySpec
  Flaky = {a}
  MaxChanges = 2
  MaxFaults = 0
INVARIANT Recorded
CHECK_DEADLOCK FALSE
