SPECIFICATION Spec
CONSTANTS
  Sent = {s1}
  Received = {r1}
  MaxTime = 1
  MaxRequests = 2
  MaxCommands = 1
  MaxWipes = 1
  MaxFaults = 1
INVARIANT StaysOpenable
CHECK_DEADLOCK FALSE
