SPECIFICATION FairSpec
CONSTANTS
    work_size = 3
    Kids <- MCKids
    thread_id <- MCThreadId
    local_subscribers <- MCLocal
    ext_subscribers <- MCExt
    Outputs <- MCOutputs
    Maker = {"a", "l"}
    Deriver = {"a", "l"}
    Items = {1, 2, 3, 4}
    QueueLength = 1
    Sccs <- NoCycles
    MaxHops = 4
    Sources <- MCSources
    Input <- MCInput
    MAX_EXTJOBS_LIMIT = 2
    CtrlC = TRUE
    Flushers = TRUE
INVARIANTS
    ReferencesExact
    TurnsAgree
    NoHang
    EmptyAtFlush
    NothingLeft
PROPERTIES
    Exits
