SPECIFICATION Spec
CONSTANTS
    Writer = {w1, w2}
    Reader = {r1}
    Manual = {}
    BG = BG
    Closer = Closer
    NULL = NULL
    Counts = {2}
    HeaderSize = 1
    SmallBatch = 3
    BigGroup = 6
    WriteBuffer = 1
    L0Trigger = 1
    L0Slowdown = 1
    L0Stop = 1
    MaxBacklog = 1
    MaxRounds = 0
    MaxFail = 1
SYMMETRY Symmetry
INVARIANTS
    ReadsConsistent
PROPERTIES
    SnapshotStable
