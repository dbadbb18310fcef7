CONSTANTS
    Names <- MCNames
    UDTNames <- MCUDTNames
    Args <- MCArgs
    Contexts <- MCContexts
    Options <- MCOptions
    Settings <- MCSettings

SPECIFICATION Spec

INVARIANTS
    AllSendLastBind
