SPECIFICATION Spec
CONSTANTS
  Initiator = alice
  Responder = bob
  MaxCommands = 2
  MaxFaults = 2
INVARIANTS
  PeerCatchesUpInOrder
  ConfirmedHasSwitched
CHECK_DEADLOCK FALSE
