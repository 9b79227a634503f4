SPECIFICATION LiveSpec
CONSTANTS
    w1 = w1
    w2 = w2
    m1 = m1
    m2 = m2
    Writer = {w1, w2}
    Reader = {}
    Manual = {m1, m2}
    BG = BG
    Closer = Closer
    NULL = NULL
    Counts = {1}
    HeaderSize = 1
    SmallBatch = 1
    BigGroup = 4
    WriteBuffer = 0
    L0Trigger = 1
    L0Slowdown = 1
    L0Stop = 1
    MaxBacklog = 0
    MaxRounds = 1
    MaxFail = 1
PROPERTIES
    WriteReturns
    CloseReturns
    ImmFlushed
    ManualReturns
