SPECIFICATION Spec
CONSTANTS
  Threads = {t1, t2}
  MainThread = t1
  NSpan = 5
  MapCount = 2
  NHeap = 2
  BlockCount <- MCBlocks
  PageBlocks = 2
  CacheMax = 2
  Transfer = 1
  LargeCacheMax = 2
  LargeTransfer = 1
  GlobalMultiplier = 1
  MaxCount = 2
  Menus <- MCMenus
  Overlap = FALSE
INVARIANTS MemoryOnce Counters
PROPERTIES Released
CHECK_DEADLOCK FALSE
