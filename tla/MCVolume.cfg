SPECIFICATION VolumeSpec
CONSTANTS
    BlockSize = 2
    Direct = 3
    TableLen = 3
    LastBlock = 6
    Word = 64
    Counts = {1, 2, 3}
    MaxSize = 5
    Layouts <- MCLayouts
    PrimMax = 3
    LogicMax = 2
    ByteBits = 3
    SectorBytes = 2
    InodeMapSects = 1
    InodeSects = 1
INVARIANTS BytesKept ReadsBack BlocksCounted OthersKept VolumesFound VolumesKept
CHECK_DEADLOCK FALSE
