CONSTANTS
    Chunk = 3
    SendBuffer = 2
    MaxLen = 7
SPECIFICATION Spec
CHECK_DEADLOCK FALSE
INVARIANTS
    TypeOK
    InOrder
    ShortReplySent
PROPERTY
    WriteEnds
