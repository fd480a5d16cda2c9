SPECIFICATION Spec
CONSTANTS
  Keys = {0, 1, 2}
  Values = {0, 1}
  ZeroKey = 0
  ZeroValue = 0
  Hash <- MCHash
  INIT_CAPACITY = 2
  MAX_LOAD_FACTOR = 75
  GROW_RATE = 200
  INVALID_INDEX = 99
  Counts = {0, 5}
  Traverses = FALSE
  ReusesAfterClear = TRUE
INVARIANTS FindsWhatWasPut
