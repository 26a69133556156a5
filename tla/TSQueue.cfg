CONSTANTS
    t1 = t1
    t2 = t2
    t3 = t3
    q1 = q1
    early = early
    late = late
    NULL = NULL
    Thread = {t1, t2, t3}
    Queue = {q1}
    Entry = {early, late}
    Timed = {early, late}
    AbsTime <- MCAbsTime
SPECIFICATION FairSpec
INVARIANTS ListShape OneOwner Inv NoLostWakeup
PROPERTIES ImplementsQueue WaiterServed
