CONSTANTS
    main = main
    thr = thr
    tm1 = tm1
    tm2 = tm2
    Main = main
    NoInterp = NoInterp
    NoTimer = NoTimer
    Interp = {main, thr}
    Timer = {tm1}
    TimerArgs <- OnceSoon
    Naps = {1}
    Uses = {"alarm", "sleep", "callback", "terminate", "sigint", "check"}
    MaxEv = 2
    MaxNest = 1
    MaxStarts = 1
SPECIFICATION Spec
INVARIANTS EventOwned
CHECK_DEADLOCK FALSE
