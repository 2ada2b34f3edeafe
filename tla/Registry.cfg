SPECIFICATION FairSpec
CONSTANTS
    Slots <- OneSlot
    MaxId = 2
    MaxActive = 1
    EventCap = 2
    Limit = 1
    RstLen = 1
    MaxResets = 1
CONSTRAINT PlainStalls
INVARIANTS
    StoreConsistent
    OwnersExact
    HeadEffectExact
    ReserveKept
    NoLostWake
    EventsExact
PROPERTIES
    NeverReopened
    ClosedStreamsGo
CHECK_DEADLOCK FALSE
