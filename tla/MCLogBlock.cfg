SPECIFICATION Spec
CONSTANTS
    NULL = NULL
    kBlockSize = 5
    kHeaderSize = 3
    InitialOffsets <- OnlyZero
    MaxRecords = 3
    MaxLen = 5
    MaxTears = 0
    MaxFail = 2
INVARIANTS
    HeaderInOneBlock
