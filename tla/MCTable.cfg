SPECIFICATION Spec
CONSTANTS
    g1 = g1
    g2 = g2
    Callers <- MCCallers
    Names <- MCNames
    None = "none"
    PartKey <- MCPartKey
    SortKey <- MCSortKey
    Columns <- MCColumns
    Common <- MCCommon
    CallerSpare = 1
    Growth = 1
    MaxAdds = 2
SYMMETRY CallerSymmetry
CHECK_DEADLOCK FALSE
INVARIANTS
    TypeOK
    TableImmutable
    BuildersIsolated
PROPERTIES
    NoSharedWrite
