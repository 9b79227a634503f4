SPECIFICATION MCSpec
CONSTANTS
    NULL = NULL
    kBlockSize = 5
    kHeaderSize = 3
    InitialOffsets <- SomeOffsets
    MaxRecords = 3
    MaxLen = 3
    MaxTears = 1
    MaxFail = 1
    InternalKeys <- TableKeys
    MaxEntries = 4
    Top = 3
    MaxTag = 4
    Intervals = {1, 2}
    BlockSizes = {12, 22}
    FilterBase = 32
    BitsPerKey = 4
    MinBits = 8
    HashOf <- TableHashes
    Spaces = {1, 99}
    Keys = {1, 2}
    Runs = 2
    Loaded = 3
    MaxSequence = 4
INVARIANTS
    LogReadsBack
    NothingInvented
    TableGets
PROPERTIES
    ReaderAdvances
    TableIterates
    IterImplementsCursor
