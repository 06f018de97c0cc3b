SPECIFICATION FairSpec
CONSTANTS
  Handles = {h1, h2}
  Helpers = {x1, x2, x3}
  Refs = {r1, r2, r3}
  NIL = NIL
  Events = {"argument", "resolve", "socket", "closed", "tag", "get"}
INVARIANTS TypeOK PointersLive RefsOwned NothingUsedTwice
PROPERTIES GivenUpClosed
CHECK_DEADLOCK FALSE
