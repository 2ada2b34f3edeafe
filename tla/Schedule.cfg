SPECIFICATION FairSpec
CONSTANTS
    Streams = {s1, s2}
    None = None
    Limit = 2
    Permits <- One
    Modes <- Rounds
    Scarce <- OneStreamsToo
INVARIANTS
    WaitersOwed
    OneTurnPerRound
PROPERTIES
    EveryTurnComes
    EveryWaitEnds
