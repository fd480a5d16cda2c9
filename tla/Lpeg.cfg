SPECIFICATION Spec
CONSTANTS
  Chars <- MCChars
  Careful = TRUE
  MaxOff = 1
  MaxBack = 20
  MaxSiz = 2
  MaxSteps = 120
  Menus <- MCMenus
INVARIANTS Agrees AnalysesSound DynBalanced
CHECK_DEADLOCK FALSE
