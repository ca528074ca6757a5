SPECIFICATION DiskSpec
CONSTANTS
    main = main
    idle = idle
    t1 = t1
    Main = main
    Idle = idle
    Threads = {main, idle, t1}
    Priority <- MCNoSlice
    Locks = {chan}
    Events = {done}
    NULL = NULL
    MaxRepeat = 1
    Users = {main, t1}
    Callers = {t1}
    Chan = chan
    Done = done
    ChunkMax = 2
    MaxSectors = 3
    MaxPolls = 2
INVARIANTS PanicsOnlyOnTimeout TransfersMatch QuietWhenFree
PROPERTIES DriverImplementsSync
CHECK_DEADLOCK FALSE
