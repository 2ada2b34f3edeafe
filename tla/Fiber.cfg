SPECIFICATION Spec
CONSTANTS
    get = get
    post = post
    c1 = c1
    NoHint = NoHint
    NoCall = NoCall
    NoConn = NoConn
    Gone = Gone
    IdempotentAttempts = 2
    OtherAttempts = 2
    ReconnectOnStale = TRUE
    Margin = 1
    Calls <- TwoCalls
    Idempotent <- OneIdempotent
    Conns <- OneConn
    Maxima <- NoneOrTwo
    Timeouts <- Announced
    Window = 2
    WaitCap = 1
    MaxHops = 1
    Following <- OneFollowing
    MaxFaults = 2
INVARIANTS
    SafetyExact
    ReadyExact
    NobodyForgotten
PROPERTY
    LeaseKept
CHECK_DEADLOCK FALSE
