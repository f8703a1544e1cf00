CONSTANTS
    FileShapes <- MCFileShapes
    NFiles = 2
    Cap = 3
    NoData = NoData
SPECIFICATION Spec
INVARIANTS
    TypeOK
    CapRespected
CHECK_DEADLOCK FALSE
