SPECIFICATION Spec
SYMMETRY Interchangeable
CONSTANTS
  Initiators = {alice, carol}
  DirectoryKept = TRUE
  BatchSize = 1
  LowPool = 0
  MaxAttempts = 2
  MaxBatches = 3
  MaxCodes = 2
  MaxFaults = 2
INVARIANTS
  HandedOutOnce
  OfferedIsHeld
  AcceptedOnce
  GuessesBounded
CHECK_DEADLOCK FALSE
