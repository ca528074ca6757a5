SPECIFICATION IoqSpec
CONSTANTS
    main = main
    idle = idle
    t1 = t1
    t2 = t2
    Main = main
    Idle = idle
    Threads = {main, idle, t1, t2}
    Priority <- MCNoSlice
    Locks = {ioq}
    Events = {}
    NULL = NULL
    MaxRepeat = 1
    Ioq = ioq
    Consumers = {t1, t2}
    Producers = {main}
    Keyboard = TRUE
    Chars = {a, b}
    BufSize = 3
PROPERTIES ImplementsFifo ImplementsSync
