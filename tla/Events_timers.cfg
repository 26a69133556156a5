CONSTANTS
    main = main
    thr = thr
    tm1 = tm1
    tm2 = tm2
    Main = main
    NoInterp = NoInterp
    NoTimer = NoTimer
    Interp = {main}
    Timer = {tm1, tm2}
    TimerArgs <- MixedTimers
    Naps = {}
    Uses = {"timer", "stop"}
    MaxEv = 4
    MaxNest = 0
    MaxStarts = 1
SPECIFICATION Spec
INVARIANTS TypeOK TimedOrder TimerOwes StoppedTimerQuiet
