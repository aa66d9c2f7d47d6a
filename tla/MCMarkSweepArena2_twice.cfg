CONSTANTS
  Slot = {s1, s2}
  Eph = {e1, e2}
  MayBoxHandles = FALSE
  MayResurrect = TRUE
  MayBindUnmarked = FALSE
  Room = 2
  Threshold = 1
  MaxHeld = 2
  MaxFields = 1
SPECIFICATION ArenaSpec
SYMMETRY Symmetry
INVARIANT HandlesIntact
CHECK_DEADLOCK FALSE
