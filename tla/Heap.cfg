SPECIFICATION Spec
CONSTANTS
  BIN_COUNT = 5
  BIN_MAX_LOOKUPS = 1
  HeapNode = 32
  WORD = 65536
  Buffer = 8
  SIZE = 352
  Sizes = {16, 33, 100}
INVARIANTS TypeOK Tiled BinsExact BlocksFit SearchComplete
PROPERTIES Coalesces
