SPECIFICATION Spec
SYMMETRY Interchangeable
VIEW View
CONSTANTS
  e1 = e1
  e2 = e2
  e3 = e3
  alice = alice
  bob = bob
  box = box
  Entries = {e1, e2, e3}
  Accounts = {alice, bob}
  Boxes = {box}
  Handlers = {}
  WriterOf <- MCOneWriter
  BoxOf <- MCBoxOf
  Persistent = TRUE
  ZeroInterval = FALSE
  MailboxCap = 2
  WriterCap = 2
  MemoryLimit = 1
  MaxFlushes = 2
  MaxFaults = 1
  MaxStops = 1
INVARIANTS
  AckedIsKept
  RowsHaveFragments
  MemoryIsCounted
