CONSTANTS
  Slot = {s1, s2, s3}
  Eph = {e1, e2}
  MayBoxHandles = FALSE
  MayResurrect = TRUE
  MayBindUnmarked = FALSE
  MaxHeld = 1
  MaxFields = 1
SPECIFICATION OneCollection
SYMMETRY Symmetry
INVARIANT KeysIntact
CHECK_DEADLOCK FALSE
