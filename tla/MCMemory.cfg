SPECIFICATION MemorySpec
CONSTANTS
    PageCount = 4
    MapByteBits = 2
    FrameCount = 4
    PageUnits = 6
    HeaderUnits = 1
    BlockSizes <- MCBlockSizes
    Requests <- MCRequests
    Machines <- MCMachines
    Word = 256
    PagesWord = 16
    PageBytes = 2
    UsedPages = 3
    BitmapRoom = 12
    Kilo = 1
    Chunk = 4
    Low = 3
INVARIANTS ArenasAgree PagesAgree ScanAgrees PoolsFit
PROPERTIES ImplementsHeap
CHECK_DEADLOCK FALSE
