SPECIFICATION FairSpec
CONSTANTS
  a1 = a1
  a2 = a2
  b1 = b1
  Initiator = alice
  Responder = bob
  Messages = {a1, b1}
  AuthorOf <- MCAuthorOf
  MaxSends = 2
  MaxFaults = 2
INVARIANT ShownOnce
PROPERTIES
  ConfirmedOrOffered
  MailboxDrains
CHECK_DEADLOCK FALSE
