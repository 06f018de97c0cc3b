SPECIFICATION FairSpec
CONSTANTS
  MaxReq = 3
  Kinds = {"call", "get", "newindex", "setglobal"}
  SwitchJams = {TRUE, FALSE}
  ClosesOnError = FALSE
  Timeouts = FALSE
  Faults = {}
INVARIANTS ServerSurvives
PROPERTIES EveryCallAnswered
CHECK_DEADLOCK FALSE
