SPECIFICATION FairSpec
CONSTANTS
    Owners = {1, 2}
    MaxFrames = 5
    Lens <- ShortLens
    Bodies <- ShortBodies
    HeadLen = 1
    Rooms <- ShortRooms
    Limit = 4
    ResetSlack = 1
    TerminalSlack = 1
    Payloads = 3
    Modulus = 7
INVARIANTS
    LedgerExact
PROPERTIES
    WireOrder
    Delivered
CHECK_DEADLOCK FALSE
