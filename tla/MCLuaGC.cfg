CONSTANTS
    Programs <- MCPrograms
    Hash <- MCHash
    GCSWEEPMAX = 2
    MINSTRTABSIZE = 1
    Registers = 2
SPECIFICATION Spec
CHECK_DEADLOCK FALSE
INVARIANTS NoDangling TriColour Interned ClosedEmpty
PROPERTIES FinalizedBeforeFreed FullCollection
