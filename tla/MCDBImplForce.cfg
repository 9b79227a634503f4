SPECIFICATION Spec
CONSTANTS
    Writer = {w1, w2, w3}
    Reader = {}
    Manual = {}
    BG = BG
    Closer = Closer
    NULL = NULL
    Counts = {1}
    HeaderSize = 1
    SmallBatch = 2
    BigGroup = 4
    WriteBuffer = 4
    L0Trigger = 1
    L0Slowdown = 1
    L0Stop = 1
    MaxBacklog = 0
    MaxRounds = 0
    MaxFail = 0
SYMMETRY Symmetry
INVARIANTS
    ForcedFlush
