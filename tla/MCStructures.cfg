SPECIFICATION MCSpec
CONSTANTS
    NULL = NULL
    k1 = k1
    k2 = k2
    k3 = k3
    Key = {k1, k2, k3}
    HashOf <- Hashes
    Charge = {1, 2}
    Capacity = 3
    kInitialLength = 1
    MaxEntries = 4
    MaxHandles = 2
    Wild = Wild
    Keys = {1, 2}
    MaxNodes = 3
    MaxHeight = 2
    Readers = {r1}
    Paths = {p1, p2}
    Sharers = {c1, c2}
    Objects = {1, 2, 3}
    Values = {v1}
    MaxHolds = 2
    SharersMake = FALSE
    Process = {q1, q2, q3}
    Database = {d1}
    MaxOpens = 3
    MaxInodes = 8
    MaxDeaths = 2
    MaxKey = 2
    PageSpace = 100
    MinUnit = 4
    Table = {t1, t2}
    Size = {1, 12, 18}
    PageSize = 16
    HeadSize = 2
    FlagSize = 2
    Word = 2
    PageEntry = 1
    DefSize = 2
    Meta = {1, 2}
    MetaSize = 3
    KeySize = 1
    IndexEntry = 1
    Buffers = 2
    MaxRecords = 3
    MaxReads = 2
    Garbage = {3}
    ByteBits = 3
    ShortBytes = 2
    IntBytes = 3
    LongBytes = 4
    MaxGroup = 2
INVARIANTS
    CacheAccounts
    CacheFinds
    NeverWild
    SearchesExact
    HandlesShared
    Exclusive
    IndexExact
    RecordsExact
    FieldsExact
