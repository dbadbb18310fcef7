SPECIFICATION Spec
CONSTANT
    Programs <- MCPrograms
INVARIANTS
    TypeOK
    NamesLineUp
    ClausesAsAsked
    BatchLinesUp
    LastSetterWins
    TimeoutKept
