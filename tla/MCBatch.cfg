CONSTANTS
    Names <- MCNames
    UDTNames <- MCUDTNames
    Args <- MCArgs
    Contexts <- MCContexts
    Settings <- MCSettings
    MaxBatch = 2
    MaxWrappers = 3

SPECIFICATION Spec

INVARIANTS
    TypeOK
    SendsWhatWasBound
