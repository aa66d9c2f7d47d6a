CONSTANTS
  Slot = {s1, s2}
  Eph = {e1, e2}
  MayBoxHandles = FALSE
  MayResurrect = TRUE
  MayBindUnmarked = FALSE
  MaxHeld = 2
  MaxFields = 1
SPECIFICATION Spec
SYMMETRY Symmetry
INVARIANTS
  CountsExact
  HandlesIntact
  QueuesExact
  KeysIntact
  MapExact
  GarbageGoes
  NoDropUnderHandle
CHECK_DEADLOCK FALSE
