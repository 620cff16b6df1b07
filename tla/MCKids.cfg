SPECIFICATION Spec
CONSTANTS
    Cap = 1
    Kids <- MCKidNames
    Inputs <- MCInputs
    MaxCalls <- MCMaxCalls
    LastFlush <- MCLastFlush
INVARIANTS RefsBalanced SortedWhole KeysExact StreamsWhole RecordsKept
CHECK_DEADLOCK FALSE
