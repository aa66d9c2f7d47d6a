CONSTANTS
  SIZE_CLASSES = {2, 3}
  v1 = v1
  v2 = v2
  v3 = v3
  Value = {v1, v2, v3}
  SizeOf <- Sizes
  PageSizes = {8}
  DEFAULT_PAGE = 11
  MAX_POOL_ID = 1
  MAX_SLOT_IDX = 3
  WORD_BITS = 2
  MaxGiven = 3
SPECIFICATION Spec
SYMMETRY Symmetry
INVARIANTS
  HandlesResolve
  SlotsExact
  DenseImageLoads
CHECK_DEADLOCK FALSE
