CONSTANTS
    N = 3
    MaxWrites = 1
    MaxCalls = 2

SPECIFICATION FairSpec

INVARIANTS
    TypeOK
    NilMeansCopied
    RowsWhole

PROPERTIES
    Returns

CHECK_DEADLOCK FALSE
