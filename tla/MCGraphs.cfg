SPECIFICATION FlushSpec
CONSTANTS
    Kids <- MCKids
    Graphs <- MCGraphs
    Accepts <- MCAccepts
    MAX_FLUSH_SUBS = 128
    NoKid = NoKid
    TableLen = 2
    MAX_FLUSHES = 100
INVARIANTS
    SubscribersExact
    WritersCounted
    FlushersOnce
    OthersFlushed
PROPERTIES
    FlushEnds
