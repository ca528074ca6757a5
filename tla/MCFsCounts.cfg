SPECIFICATION DirsSpec
CONSTANTS
    BlockSize = 2
    Direct = 3
    TableLen = 2
    LastBlock = 6
    InodeCount = 4
    PerBlock = 2
    Names = {"a", "b", "d", "x"}
    FilePaths <- MCFilePaths
    OpenPaths <- MCDeepPaths
    DirPaths <- MCTopDirPaths
    OpenDirPaths = {}
    ChdirPaths = {}
    HandleCount = 0
    SlotCount = 3
    FdCount = 2
    Counts = {1, 2}
    MaxSize = 2
INVARIANT CountsAgree
CHECK_DEADLOCK FALSE
