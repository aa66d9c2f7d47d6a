CONSTANTS
  Slot = {s1, s2, s3}
  RootNode = {r1}
  FREED_ALLOC_ID = 3
  KeepAcross = FALSE
  MaxFields = 0
  MaxPairs = 2
  MaxWeaks = 0
SPECIFICATION FairSpec
INVARIANT EphemeronExact
PROPERTY CollectionEnds
CHECK_DEADLOCK FALSE
