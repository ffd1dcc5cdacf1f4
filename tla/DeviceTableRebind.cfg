CONSTANTS
  p1 = p1
  p2 = p2
  NULL = NULL
  Pdevs <- MCPdevs
  Index <- MCIndex
  Users = {u1, u2}
  MAX_DEVICES = 3
  Faults = {}
  Hotplug = TRUE
  MaxProbes = 2
  MaxClasses = 2
SPECIFICATION Spec
INVARIANT ClassSound
CHECK_DEADLOCK FALSE
