SPECIFICATION MCSpec
CONSTANTS
    Keys <- MCKeys
    MaxCalls = 5
    NoKey = NoKey
    Garbage = Garbage
    Rows = 2
    Home <- MCHome
    Depth = 2
    EpochBits = 1
    EinsertMax = 1
    Upper = 1
    Bytes = 1
    EpochValues = 2
    MaxInsertCnt = 1
    MaxRecords = 3
    Chains = 2
    HashOf <- MCHash
    Kinds = {"sh5", "sh9a", "sh3"}
    Deletable = {"sh5", "sh3"}
INVARIANTS AnswersRight EpochKept
PROPERTIES VictimIsOldest LossCounted
CHECK_DEADLOCK FALSE
