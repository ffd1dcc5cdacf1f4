CONSTANTS
  Threads = {t1, t2}
  MaxTransfers = 3
  DriverTimeouts = FALSE
  EngineFaults = FALSE
  Dir = "WRITE"
  Blockers = {t1, t2}
  Starters = {}
  Careful = {}
  ArgErrors = {}
  LibTimeouts = {}
SPECIFICATION Spec
INVARIANT Exclusive
CHECK_DEADLOCK FALSE
