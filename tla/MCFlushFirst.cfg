SPECIFICATION FlushSpec
CONSTANTS
    Kids <- MCKids
    Graphs <- FlushedGraphs
    Accepts <- MCAccepts
    MAX_FLUSH_SUBS = 128
    NoKid = NoKid
    TableLen = 2
    MAX_FLUSHES = 100
INVARIANTS
    AllFlushed
