SPECIFICATION Spec
CONSTANTS
  Handles = {h1, h2}
  Helpers = {x1, x2, x3}
  Refs = {r1, r2, r3}
  NIL = NIL
  Events = {"closed"}
INVARIANTS ClosedHandleRaises
CHECK_DEADLOCK FALSE
