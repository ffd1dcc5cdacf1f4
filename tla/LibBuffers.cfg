CONSTANTS
  MaxFiles = 4
  MAX_ORDER = 3
  Sizes = {0, 3}
  Threads = {t1, t2}
  Fds = {3, 4, 5}
  a1 = a1
  a2 = a2
  a3 = a3
  Addrs <- MCAddrs
  Uninit <- MCUninit
  buffer_list_inc = 1
  MaxResizes = 2
  NULL = NULL
  MAP_FAILED = MAP_FAILED
SPECIFICATION Spec
INVARIANTS TypeOK ListSound MemorySound FiniCleans
SYMMETRY Symmetry
CHECK_DEADLOCK FALSE
