SPECIFICATION FairSpec
CONSTANTS
    Threads = {t1, t2, t3}
    Labels = {a, b}
    WSDATA_MAX_LABELS = 3
    NULL = NULL
INVARIANTS
    SlotsExclusive
    RefusedOnlyFull
    OwnLabelFound
PROPERTIES
    AddEnds
    ImplementsList
