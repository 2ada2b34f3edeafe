SPECIFICATION FairSpec
CONSTANTS
    Initial = 1
    MaxWindow = 4
    MinWindow <- MCMinWindow
    Streams = {s1, s2}
    ConnTarget = 4
    StreamInit = 4
    Overshoot = 1
CONSTRAINT BreachIsLast
INVARIANTS
    CreditConserved
    ViewsAgree
    ConformingPeerAccepted
    NeverWedged
PROPERTIES
    CreditReturns
CHECK_DEADLOCK FALSE
