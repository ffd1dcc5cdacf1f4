CONSTANTS
  Threads = {t1}
  MaxTransfers = 3
  DriverTimeouts = FALSE
  EngineFaults = FALSE
  Dir = "WRITE"
  Blockers = {}
  Starters = {t1}
  Careful = {t1}
  ArgErrors = {}
  LibTimeouts = {}
SPECIFICATION Spec
INVARIANT ReadyMeansIdle
CHECK_DEADLOCK FALSE
