SPECIFICATION Spec
CONSTANTS
    NULL = NULL
    kBlockSize = 5
    kHeaderSize = 3
    InitialOffsets <- SomeOffsets
    MaxRecords = 3
    MaxLen = 5
    MaxTears = 1
    MaxFail = 0
INVARIANTS
    ReportsOnlyCorruption
