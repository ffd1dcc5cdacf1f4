CONSTANTS
  MaxSegments = 4
  MaxSize = 8
SPECIFICATION FairSpec
INVARIANTS TypeOK EntriesSound Covers
PROPERTY Terminates
CHECK_DEADLOCK FALSE
