SPECIFICATION Spec
CONSTANTS
  MaxSkip = 2
  CacheMultiplier = 1
  MaxMessages = 5
  MaxKeys = 6
CHECK_DEADLOCK FALSE
INVARIANTS
  OpenedOnce
  NextKeyIsFresh
  ProgressIsExact
  ArrivalsOpen
  OldestEvicted
