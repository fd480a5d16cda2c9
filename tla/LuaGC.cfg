SPECIFICATION Spec
CONSTANTS
  NObj = 6
  SweepMax = 1
  Menus <- MCMenus
INVARIANTS TypeOK NoDangling MarkInvariant GenerationsSound
PROPERTIES FinalizedWhenUnreachable FullCollectsAll
CHECK_DEADLOCK FALSE
