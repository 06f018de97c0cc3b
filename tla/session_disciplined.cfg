SPECIFICATION FairSpec
CONSTANTS
  MaxReq = 3
  Kinds = {"call", "get", "newindex", "setglobal"}
  SwitchJams = {TRUE, FALSE}
  ClosesOnError = TRUE
  Timeouts = TRUE
  Faults = {"marshal", "lua", "crash"}
INVARIANTS TypeOK NeverSwitchesUnread UnsentNeverRuns
PROPERTIES RCSpec
CHECK_DEADLOCK FALSE
