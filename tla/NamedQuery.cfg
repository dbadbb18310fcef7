CONSTANT MaxLength = 7

SPECIFICATION Spec
CHECK_DEADLOCK FALSE

INVARIANTS
    TypeOK
    CompilesToMeaning
    RejectsMalformed
