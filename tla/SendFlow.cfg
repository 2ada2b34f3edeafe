SPECIFICATION Spec
CONSTANTS
    Initial = 2
    MaxWindow = 3
    MinWindow <- SmallMin
    Streams = {s1, s2}
    MaxLen = 2
    MaxQueue = 2
    Grants = {1}
    Sizes <- SmallSizes
    MaxSettings = 1
INVARIANTS
    CreditExact
    NoLostConnWake
PROPERTIES
    PeerNeverOverrun
SYMMETRY Symmetric
CHECK_DEADLOCK FALSE
