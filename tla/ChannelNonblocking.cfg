CONSTANTS
  Threads = {t1, t2, t3}
  MaxTransfers = 4
  DriverTimeouts = TRUE
  EngineFaults = TRUE
  Dir = "READ"
  Blockers = {}
  Starters = {t1, t2, t3}
  Careful = {t1, t2, t3}
  ArgErrors = {2, 3, 4}
  LibTimeouts = {t1, t2, t3}
SPECIFICATION Spec
INVARIANTS TypeOK Exclusive KernelExclusive SuccessIsReal SgListSound ReadyMeansIdle ReadyHoldsNoMemory ErrorNeedsTimeout
PROPERTY ImplementsExclusiveChannel
SYMMETRY ThreadSymmetry
CHECK_DEADLOCK FALSE
