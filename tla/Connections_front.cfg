\* See "Bounds" in README.md.
SPECIFICATION Spec
CONSTANTS
    Accounts = {a1, a2}
    Links = {l1, l2, l3}
    Clients = {c1, c2}
    Proxies = {p1}
    Garbled = garbled
    None = None
    ConnectionCap = 2
    MaxConcurrent = 2
    Capacity <- MCCapacity
    StaleAfter = 2
    MaxFrames = 2
    Scenarios <- MCScenarios
SYMMETRY Interchangeable
INVARIANTS
    AnswerIsOwn
    PresenceIsTrue
    SlotsHeld
    CapHeld
    AllowanceBounded
PROPERTIES
    RelationshipsLast
CHECK_DEADLOCK FALSE
