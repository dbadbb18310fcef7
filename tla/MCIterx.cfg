CONSTANTS
    c1 = c1
    c2 = c2
    Columns <- MCColumns
    MaxPage = 2
    MaxPages = 3

SPECIFICATION FairSpec

INVARIANTS
    TypeOK
    SelectComplete
    SelectIsRun
    GetHonest
    CASVerdict

PROPERTIES
    ErrorsSurface
    StrictRespected
    CallsReturn
    IsRowStream
