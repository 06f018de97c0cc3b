SPECIFICATION FairSpec
CONSTANTS
  MaxReq = 3
  Kinds = {"call", "get", "newindex", "setglobal"}
  SwitchJams = {TRUE, FALSE}
  ClosesOnError = FALSE
  Timeouts = TRUE
  Faults = {"marshal", "lua", "crash"}
INVARIANTS RunsAtMostOnce FramingKept
PROPERTIES NoExecutionAfterAnswer EveryCallReturns AbandonedWorkerReaped
CHECK_DEADLOCK FALSE
