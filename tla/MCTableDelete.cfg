SPECIFICATION MCSpec
CONSTANTS
    Keys <- MCKeys
    MaxCalls = 5
    NoKey = NoKey
    Garbage = Garbage
    Rows = 2
    Home <- MCHome
    Depth = 2
    EpochBits = 1
    EinsertMax = 1
    Upper = 1
    Bytes = 1
    EpochValues = 2
    MaxInsertCnt = 1
    MaxRecords = 3
    Chains = 2
    HashOf <- MCHash
    Kinds = {"sh9a"}
    Deletable = {"sh9a"}
PROPERTIES DeleteForgetsOne
CHECK_DEADLOCK FALSE
