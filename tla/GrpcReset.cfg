SPECIFICATION Spec
CONSTANTS
    MaxId = 2
    PlaceCap = 2
    ReadyCap = 1
    EventCap = 1
    MessageCap = 1
    Slots <- TwoSlots
    RequestCap = 2
    WireCap = 1
    MaxFrames = 4
    Asks <- EachShape
INVARIANT ResetsStayLocal
CHECK_DEADLOCK FALSE
