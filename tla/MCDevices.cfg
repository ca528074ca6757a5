SPECIFICATION DevicesSpec
CONSTANTS
    main = main
    idle = idle
    t1 = t1
    a = a
    Main = main
    Idle = idle
    Threads = {main, idle, t1}
    Priority <- MCNoSlice
    Locks = {chan, ioq}
    Events = {done}
    NULL = NULL
    MaxRepeat = 1
    Users = {main}
    Callers = {}
    Chan = chan
    Done = done
    ChunkMax = 1
    MaxSectors = 1
    MaxPolls = 1
    Consumers = {t1}
    Ioq = ioq
    Chars = {a}
    BufSize = 2
PROPERTIES ChannelReturned CharactersRead ReadyTaskRuns
CHECK_DEADLOCK FALSE
