SPECIFICATION FairSpec
CONSTANTS
  e1 = e1
  e2 = e2
  e3 = e3
  alice = alice
  bob = bob
  box = box
  Entries = {e1}
  Accounts = {alice, bob}
  Boxes = {box}
  Handlers = {h1}
  WriterOf <- MCOneWriter
  BoxOf <- MCBoxOf
  Persistent = TRUE
  ZeroInterval = FALSE
  MailboxCap = 2
  WriterCap = 2
  MemoryLimit = 2
  MaxFlushes = 5
  MaxFaults = 1
  MaxStops = 2
INVARIANTS
  LossIsAnnouncedInOrder
  ListedIsStored
  LostIsGone
PROPERTIES
  QueueImplemented
  UnqueuedLeavesDisk
  WaitingIsAnswered
