CONSTANTS
    main = main
    a = a
    b = b
    c = c
    Main = main
    NULL = NULL
    Interp = {main, a, b, c}
    Programs <- AllPrograms
    JoinErrors = FALSE
    MaxSlots = 4
SPECIFICATION Spec
SYMMETRY Symmetry
INVARIANTS TypeOK InItsSlot NoDeadInterpreter JoinedIsThere CountsThreads ExitWaits
PROPERTY JoinOnce
CHECK_DEADLOCK FALSE
