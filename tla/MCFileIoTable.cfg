SPECIFICATION Spec
CONSTANTS
    BlockSize = 2
    Direct = 3
    TableLen = 3
    LastBlock = 8
    Word = 64
    Counts = {1, 2, 3}
    MaxSize = 8
INVARIANT OthersKept
CHECK_DEADLOCK FALSE
