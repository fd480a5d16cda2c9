SPECIFICATION Spec
CONSTANTS
  MAXARG_C = 7
  MAXINDEXRK = 3
  MAXARG_Bx = 15
  LFIELDS_PER_FLUSH = 2
  Width = 6
  StackMax = 70
  MaxSteps = 150
  MaxCalls = 10
  Menus <- MCMenus
INVARIANTS Agrees AgreesYielding AssertsHold
CHECK_DEADLOCK FALSE
