SPECIFICATION Spec
CONSTANTS
    HeadLen = 2
    MaxControl = 2
    MaxFrame = 3
    MaxMessage = 3
    MaxOpening = 3
    MaxAcc = 6
    Streams <- StreamSet
    Rooms <- SmallOrLarge
INVARIANTS
    ExactlyAsSent
    BoundExact
    NothingStranded
CHECK_DEADLOCK FALSE
