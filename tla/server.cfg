SPECIFICATION FairSpec
CONSTANTS
  Conns = {c1, c2, c3}
  HEAD = HEAD
  SERVER = SERVER
  NIL = NIL
  MaxFds = 2
  Mixed = {c1}
  Commands <- MCCommands
  LuaErrors = TRUE
INVARIANTS TypeOK OneRing CursorLives DoomedNeverServed WaitsInSelect
PROPERTIES EveryConnectionTaken EveryCommandRead HungUpFreed
CHECK_DEADLOCK FALSE
