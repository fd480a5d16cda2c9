SPECIFICATION Spec
CONSTANTS
  Heap = {10, 20}
  HeapLimit = 2
  External = {}
  Static = {}
  Sizes = {1, 2}
  Word = 2
  MaxAddr = 99
  Modes = {TRUE}
  Pauses = {200}
  Kinds <- MCPlain
  MaxDepth = 2
  QuietDestroy = TRUE
  GrowsLeaf = TRUE
INVARIANTS OnlyDeadPointers
