CONSTANTS
  Buffer <- TwoBuffers
  SIZE_CLASSES = {4, 6}
  page_size = 1
  max_recycled = 1
  Item <- TwoSizes
SPECIFICATION Spec
INVARIANTS
  FreeFindsPool
  PoolsExact
  HeapSizeExact
PROPERTIES
  NoBufferWhileRoom
  ImplementsHeap
