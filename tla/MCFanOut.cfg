SPECIFICATION Spec
CONSTANTS
    work_size = 4
    Kids <- MCKids
    thread_id <- MCThreadId
    local_subscribers <- MCLocal
    ext_subscribers <- MCExt
    Outputs <- MCOutputs
    Maker = {}
    Deriver = {}
    Items = {1, 2}
    QueueLength = 1
    Sccs <- NoCycles
    MaxHops = 5
    Sources <- MCSources
    Input <- MCInput
    MAX_EXTJOBS_LIMIT = 4
    CtrlC = FALSE
    Flushers = TRUE
INVARIANTS
    NoHang
