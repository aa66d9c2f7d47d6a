CONSTANTS
  Buffer <- TwoBuffers
  Handle = {h1, h2, h3}
  Layout <- SmallAndLarge
  page_size = 3
  PageAlign = 2
  Margin = 0
  MayAdjoin = FALSE
  MaxUnowned = 1
SPECIFICATION Spec
SYMMETRY Symmetry
INVARIANTS
  BlocksPlaced
  PagesCountBlocks
  HeapSizeExact
CHECK_DEADLOCK FALSE
