SPECIFICATION PathSpec
CONSTANTS
  Helpers = {x1, x2, x3}
  Names = {"", "a", "bc"}
  NoHelper = NoHelper
  Wrap = 3
INVARIANTS PathFramed
CHECK_DEADLOCK FALSE
