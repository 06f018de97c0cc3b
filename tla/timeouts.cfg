SPECIFICATION FairSpec
CONSTANTS
  Times <- MCTimes
  Default = 2
  MaxPieces = 2
INVARIANTS TypeOK CallHasItsTime
PROPERTIES EveryRequestEnds
CHECK_DEADLOCK FALSE
