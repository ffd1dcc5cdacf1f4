CONSTANTS
  p1 = p1
  p2 = p2
  NULL = NULL
  Pdevs <- MCPdevs
  Index <- MCIndex
  Users = {u1, u2}
  MAX_DEVICES = 3
  Faults = {"tx", "rx", "chrdev", "cdev", "class", "device"}
  Hotplug = FALSE
  MaxProbes = 2
  MaxClasses = 2
SPECIFICATION Spec
INVARIANTS TypeOK TableSound ClassSound IoctlDeviceExists UnloadIsClean
CHECK_DEADLOCK FALSE
