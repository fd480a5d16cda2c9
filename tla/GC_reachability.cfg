SPECIFICATION Spec
CONSTANTS
  Heap = {10, 20}
  HeapLimit = 2
  External = {}
  Static = {}
  Sizes = {1, 2}
  Word = 2
  MaxAddr = 99
  Modes = {TRUE, FALSE}
  Pauses = {200}
  Kinds <- MCMixed
  MaxDepth = 2
  QuietDestroy = TRUE
  GrowsLeaf = FALSE
INVARIANTS TypeOK MarkIsReachability Accounting
PROPERTIES Implements
