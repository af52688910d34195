SPECIFICATION Spec
CONSTANTS
    main = main
    co1 = co1
    co2 = co2
    Main = main
    Coroutines <- MCCoroutines
    BASIC_CI_SIZE = 3
    MAXCALLS = 7
    MAXCCALLS = 6
    ERRCCALLS = 8
    Programs <- MCPrograms
CHECK_DEADLOCK FALSE
INVARIANTS TypeOK CountsOneStack ErrorsToInnermost SharedOut
PROPERTIES Coroutine YieldsNoCall
