CONSTANTS
  Slot = {s1, s2}
  Eph = {e1}
  MayBoxHandles = FALSE
  MayResurrect = TRUE
  MayBindUnmarked = FALSE
  Room = 2
  Threshold = 1
  MaxHeld = 1
  MaxFields = 2
SPECIFICATION ArenaSpec
SYMMETRY Symmetry
INVARIANTS
  KeepsPromises
  CountsExactTwice
  NoArenaUnderItem
  EmptyArenasGo
  RemovedEntriesGo
CHECK_DEADLOCK FALSE
