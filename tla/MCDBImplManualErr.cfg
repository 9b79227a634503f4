SPECIFICATION Spec
CONSTANTS
    Writer = {w1}
    Reader = {}
    Manual = {m1}
    BG = BG
    Closer = Closer
    NULL = NULL
    Counts = {1}
    HeaderSize = 1
    SmallBatch = 1
    BigGroup = 4
    WriteBuffer = 0
    L0Trigger = 1
    L0Slowdown = 1
    L0Stop = 1
    MaxBacklog = 0
    MaxRounds = 1
    MaxFail = 1
CHECK_DEADLOCK FALSE
INVARIANTS
    ManualStillThere
