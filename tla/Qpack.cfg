CONSTANTS
    a = a
    b = b
    c = c
    Enc = 0
    Streams <- ThreeStreams
    Fields <- ThreeFields
    Name <- Names
    Size <- Sizes
    Overhead = 3
    Maximum = 8
    BlockedLimit = 1
    FeedbackLimit = 2
    Sections = 2
    Bits = 4
    FieldLists <- Lists
    Starts <- NewOrUsed
    MaxSections = 3
    MaxAborts = 1
SPECIFICATION Spec
INVARIANTS FrontierExact EndsAgree QuietMeansDone
CHECK_DEADLOCK FALSE
