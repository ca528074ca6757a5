SPECIFICATION ListsSpec
CONSTANTS
    main = main
    idle = idle
    t1 = t1
    t2 = t2
    l1 = l1
    e1 = e1
    Main = main
    Idle = idle
    Threads = {main, idle, t1, t2}
    Priority <- MCNoSlice
    Locks = {l1}
    Events = {e1}
    NULL = NULL
    MaxRepeat = 2
    ReadyList = 1
    WaitersOf <- MCWaitersOf
INVARIANTS NoPanic MutualExclusion ListsAgree NoLostWakeup TagsAgree ProcessWalkStays
PROPERTIES ImplementsLock
SYMMETRY MCSymmetry
