SPECIFICATION Spec
CONSTANTS
  Sizes <- MCSizes
  Alignments <- MCAlignments
  MaxReallocs = 2
INVARIANTS Fits
PROPERTIES Preserves
