CONSTANTS
    main = main
    thr = thr
    tm1 = tm1
    tm2 = tm2
    Main = main
    NoInterp = NoInterp
    NoTimer = NoTimer
    Interp = {main}
    Timer = {tm1}
    TimerArgs <- FiniteTimers
    Naps = {1, 2}
    Uses = {"timer", "sleep", "callback", "shutdown"}
    MaxEv = 3
    MaxNest = 1
    MaxStarts = 1
SPECIFICATION FairSpec
INVARIANTS SleepFull
PROPERTIES SleepEnds EventsDelivered ShutdownCompletes
