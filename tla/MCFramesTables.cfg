SPECIFICATION FramesSpec
CONSTANTS
    main = main
    idle = idle
    t1 = t1
    t2 = t2
    Main = main
    Idle = idle
    Threads = {main, idle, t1, t2}
    Priority <- MCNoSlice
    Locks = {kernel_pool_lock, user_pool_lock}
    Events = {}
    NULL = NULL
    MaxRepeat = 1
    KernelThreads = {main}
    Processes = {t1}
    KLock = kernel_pool_lock
    ULock = user_pool_lock
    PoolSize = 2
INVARIANTS PagesOnce
