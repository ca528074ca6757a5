SPECIFICATION ProcessesSpec
CONSTANTS
    main = main
    idle = idle
    p1 = p1
    p2 = p2
    Main = main
    Idle = idle
    Threads = {main, idle, p1, p2}
    Priority <- MCNoSlice
    Locks = {kernel_pool_lock, user_pool_lock, console_lock}
    Events = {}
    NULL = NULL
    MaxRepeat = 1
    Processes = {p1, p2}
    KLock = kernel_pool_lock
    ULock = user_pool_lock
    Console = console_lock
    Columns = 2
    Rows = 2
    Blank = blank
    LF = line_feed
    PerTable = 2
    UserTables = 2
    KernelTables = 4
    KernelFrames = 11
    UserFrames = 4
    HeapPages = 1
    Dirt = 0
    Workloads <- MCWorkloads
INVARIANTS RunsInOwnSpace KernelEverywhere UserPagesOwn ScreenShowsText
SYMMETRY MCSymmetry
