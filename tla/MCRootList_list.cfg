CONSTANTS
  RootNode = {n1, n2, n3, n4}
  Address = {a1, a2}
  MayMove = TRUE
  MayOutlive = TRUE
SPECIFICATION Spec
INVARIANTS
  VisitsEveryRoot
  IInv
PROPERTY ImplementsRegistry
CHECK_DEADLOCK FALSE
