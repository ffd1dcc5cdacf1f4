CONSTANTS
  MaxBatches = 2
  MaxTransfers = 2
  N = 2
  Loads = {1}
  Programs <- ProgramSet
SPECIFICATION Spec
INVARIANT ZeroMeansReceived
CHECK_DEADLOCK FALSE
