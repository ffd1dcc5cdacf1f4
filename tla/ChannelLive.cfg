CONSTANTS
  t1 = t1
  t3 = t3
  Threads = {t1, t2, t3}
  MaxTransfers = 3
  DriverTimeouts = TRUE
  EngineFaults = TRUE
  Dir = "READ"
  Blockers = {t1, t2, t3}
  Starters = {t3}
  Careful = {}
  ArgErrors = {}
  LibTimeouts = {t1}
SPECIFICATION FairSpec
ACTION_CONSTRAINT OneCompany
PROPERTIES EveryCallReturns BusyEnds
CHECK_DEADLOCK FALSE
