CONSTANTS
  Slot = {s1, s2}
  RootNode = {r1}
  FREED_ALLOC_ID = 3
  KeepAcross = FALSE
  MaxFields = 1
  MaxPairs = 2
  MaxWeaks = 1
SPECIFICATION Spec
SYMMETRY Symmetry
INVARIANTS
  HeapIntact
  WeakExact
  IInv
PROPERTY ImplementsContract
CHECK_DEADLOCK FALSE
