CONSTANTS
  Buffer <- ThreeBuffers
  arena_size = 6
  min_alignment = 1
  MAX_RECYCLED_ARENAS = 2
  Item <- ThreeSizes
SPECIFICATION Spec
INVARIANTS
  ArenasExact
  SecondAttemptFits
PROPERTIES
  SweptArenasLive
  ImplementsHeap
