SPECIFICATION Spec
CONSTANTS
  a1 = a1
  a2 = a2
  b1 = b1
  Initiator = alice
  Responder = bob
  Messages = {a1, a2, b1}
  AuthorOf <- MCAuthorOf
  MaxSends = 3
  MaxFaults = 1
INVARIANTS
  TypeOK
  FreshPosition
  DeliveredIsReceived
  UnconfirmedIsKnown
PROPERTIES
  DeliveredStays
  ConversationKept
CHECK_DEADLOCK FALSE
