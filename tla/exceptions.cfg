SPECIFICATION Spec
CONSTANTS
  MaxDepth = 7
INVARIANTS InnermostCatches
CHECK_DEADLOCK FALSE
