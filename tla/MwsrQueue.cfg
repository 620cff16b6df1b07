SPECIFICATION FairSpec
CONSTANTS
    Writers = {w1, w2}
    max_allocated = 2
    MaxAdds = 3
    NULL = NULL
INVARIANTS
    NoCellShared
    EmptyIsEmpty
PROPERTIES
    SpinEnds
    ImplementsChannel
