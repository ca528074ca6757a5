SPECIFICATION DirsSpec
CONSTANTS
    BlockSize = 2
    Direct = 3
    TableLen = 2
    LastBlock = 6
    InodeCount = 4
    PerBlock = 2
    Names = {"a", "b", "d", "x"}
    FilePaths <- MCFilePaths
    OpenPaths <- MCOpenPaths
    DirPaths <- MCDirPaths
    OpenDirPaths <- MCOpenDirPaths
    ChdirPaths <- MCChdirPaths
    HandleCount = 1
    SlotCount = 2
    FdCount = 2
    Counts = {2}
    MaxSize = 2
INVARIANTS BlocksAgree NamesAgree CachedAgree HandlesCounted CwdFound ListingAgrees AssertsHold
PROPERTIES ImplementsNames
CHECK_DEADLOCK FALSE
