SPECIFICATION FairSpec
CONSTANTS
    Keys = {k1}
    Window <- Windows
    Delays <- Soon
    MaxTime = 4
INVARIANTS
    HeapExact
    ProgressBelongs
PROPERTIES
    LazyIsEager
    EveryExpiryComes
CHECK_DEADLOCK FALSE
