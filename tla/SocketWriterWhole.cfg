CONSTANTS
    Chunk = 3
    SendBuffer = 2
    MaxLen = 7
SPECIFICATION Spec
CHECK_DEADLOCK FALSE
INVARIANT
    WholeReplySent
