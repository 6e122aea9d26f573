SPECIFICATION Spec
CONSTANTS
  MainVars = {"a", "b"}
  CalleeVars = {"p"}
  Param = "p"
  Global = "a"
  NumKeys = 1
  Longs = {1}
  MaxCells = 5
INVARIANTS RefcountExact Flat LiteralKept NothingLeaks ValueSemantics
CONSTRAINT Untied
