SPECIFICATION BodySpec
CONSTANTS
  Helpers = {x1, x2, x3, x4}
  Names <- MCNames
  Words <- MCWords
  NoHelper = NoHelper
  Wrap = 3
  Kinds = {"call", "get", "newindex"}
  Values <- MCValues
  CallArgs <- MCCallArgs
  NewValues <- MCNewValues
  Results <- MCResults
  Nesting = 2
INVARIANTS WholePathWritten ValuesArrive RightNameWalked MisreadExplained
SYMMETRY Alike
CHECK_DEADLOCK FALSE
