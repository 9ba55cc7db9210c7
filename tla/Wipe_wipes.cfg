SPECIFICATION Spec
CONSTANTS
  Sent = {s1}
  Received = {r1}
  MaxTime = 1
  MaxRequests = 2
  MaxCommands = 2
  MaxWipes = 1
  MaxFaults = 1
CONSTRAINT Apart
INVARIANTS
  TypeOK
  WipedStaysGone
  ProtectedStays
PROPERTY AskedFirst
CHECK_DEADLOCK FALSE
