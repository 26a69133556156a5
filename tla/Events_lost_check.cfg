CONSTANTS
    main = main
    thr = thr
    tm1 = tm1
    tm2 = tm2
    Main = main
    NoInterp = NoInterp
    NoTimer = NoTimer
    Interp = {main}
    Timer = {tm1}
    TimerArgs <- OnceSoon
    Naps = {1, 2}
    Uses = {"alarm"}
    MaxEv = 1
    MaxNest = 1
    MaxStarts = 0
SPECIFICATION FairSpec
PROPERTY TasksHandled
