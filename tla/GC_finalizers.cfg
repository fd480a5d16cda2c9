SPECIFICATION FairSpec
CONSTANTS
  Heap = {10, 20}
  HeapLimit = 1
  External = {30}
  Static = {40}
  Sizes = {2}
  Word = 2
  MaxAddr = 99
  Modes = {TRUE}
  Pauses = {200}
  Kinds <- MCFin
  MaxDepth = 3
  QuietDestroy = TRUE
  GrowsLeaf = FALSE
INVARIANTS FreesAreCondemned ChecksHold FinalizerOnce
PROPERTIES FinalizedBeforeFree DestroyIsComplete CollectionEnds
