SPECIFICATION Spec
CONSTANTS
    Writer = {w1, w2, w3}
    Reader = {}
    Manual = {}
    BG = BG
    Closer = Closer
    NULL = NULL
    Counts = {0, 1}
    HeaderSize = 1
    SmallBatch = 1
    BigGroup = 4
    WriteBuffer = 0
    L0Trigger = 1
    L0Slowdown = 1
    L0Stop = 1
    MaxBacklog = 0
    MaxRounds = 0
    MaxFail = 1
SYMMETRY Symmetry
INVARIANTS
    TypeOK
    LeaderIsHead
    NoLostWakeup
    SleepersHaveWork
    AckedDurable
    StatusHonest
    SequenceUnique
    NothingAfterClose
    Level0Bounded
