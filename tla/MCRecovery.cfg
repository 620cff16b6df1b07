SPECIFICATION FairSpec
CONSTANTS
    work_size = 2
    Kids <- MCKids
    thread_id <- MCThreadId
    local_subscribers <- MCLocal
    ext_subscribers <- MCExt
    Outputs <- MCOutputs
    Maker = {}
    Deriver = {}
    Items = {1, 2}
    QueueLength = 1
    Sccs <- OneCycle
    MaxHops = 5
    Sources <- MCSources
    Input <- MCInput
    MAX_EXTJOBS_LIMIT = 2
    CtrlC = FALSE
    Flushers = FALSE
INVARIANTS
    ReferencesExact
    DeadlockSeen
PROPERTIES
    Recovers
