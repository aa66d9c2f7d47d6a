CONSTANTS
  Cell = {c1, c2}
  Borrow = {b1, b2, b3, b4}
  WRITING = 3
  MaxFrames = 3
SPECIFICATION CellSpec
SYMMETRY Symmetry
INVARIANTS
  FlagExact
  WriterAlone
  TracedUnlessWritten
PROPERTY SharedValueStays
CHECK_DEADLOCK FALSE
