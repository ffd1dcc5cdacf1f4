CONSTANTS
  MaxBatches = 3
  MaxTransfers = 4
  N = 2
  Loads = {1, 2}
  Programs <- ProgramSet
SPECIFICATION FairSpec
INVARIANTS TypeOK OutputInOrder Aligned DmaInsideCall
PROPERTY WorkReturns
CHECK_DEADLOCK FALSE
