SPECIFICATION Spec
CONSTANTS
  MaxReq = 4
  Kinds = {"call", "get", "newindex", "setglobal"}
  SwitchJams = {TRUE}
  ClosesOnError = FALSE
  Timeouts = TRUE
  Faults = {"marshal", "lua", "crash"}
INVARIANTS OkUnlessOvertaken
CHECK_DEADLOCK FALSE
