CONSTANTS
    t1 = t1
    t2 = t2
    v1 = v1
    u1 = u1
    u2 = u2
    Tables <- MCTables
    Views <- MCViews
    Types <- MCTypes
    Natives <- MCNatives
    MaxLeaves = 1

SPECIFICATION Spec

INVARIANTS
    TypeOK
    ImportsExact
    ColumnTypesDefined
    NoOrphans
    NothingLeftOpaque

CHECK_DEADLOCK FALSE
