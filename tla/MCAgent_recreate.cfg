SPECIFICATION Spec
CONSTANTS
  a = a
  b = b
  c = c
  disk = disk
  Volumes = {a}
  Devices = {disk}
  NoDevice = noDevice
  DeviceOf <- OneDisk
  Keys = {"rbps"}
  Limits = {1, 2}
  Specs <- AnySpec
  Flaky = {}
  MaxChanges = 4
  MaxFaults = 1
INVARIANTS Recorded Truthful
PROPERTY NoNewDeviceWhileDeleting
CHECK_DEADLOCK FALSE
