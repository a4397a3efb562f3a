SPECIFICATION Spec
CONSTANTS
  a = a
  b = b
  c = c
  disk = disk
  Volumes = {a, b}
  Devices = {a, b}
  NoDevice = noDevice
  DeviceOf <- OwnDisk
  Keys = {"rbps"}
  Limits = {1}
  Specs <- AnySpec
  Flaky = {}
  MaxChanges = 3
  MaxFaults = 1
SYMMETRY Swap
INVARIANTS TypeOK Recorded Truthful
PROPERTIES NoNewDeviceWhileDeleting KeepsHandshake
CHECK_DEADLOCK FALSE
