SPECIFICATION Spec
CONSTANTS
    MaxKey = 2
    PageSpace = 100
    MinUnit = 4
    Table = {t1, t2}
    Size = {1, 12, 18}
    PageSize = 16
    HeadSize = 2
    FlagSize = 2
    Word = 2
    PageEntry = 2
    DefSize = 2
    Meta = {1, 2}
    MetaSize = 3
    KeySize = 1
    IndexEntry = 1
    Buffers = 2
    MaxRecords = 3
    MaxReads = 2
    Garbage = {3}
    ByteBits = 3
    ShortBytes = 2
    IntBytes = 3
    LongBytes = 4
    MaxGroup = 2
INVARIANTS
    RecordsReadBack
CHECK_DEADLOCK FALSE
