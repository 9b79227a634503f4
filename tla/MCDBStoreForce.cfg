SPECIFICATION Spec
CONSTANTS
    NULL = NULL
    WriteBuffer = 3
    L0Trigger = 4
    MaxSeq = 3
    MaxOpens = 3
    MaxFail = 0
    MaxForce = 1
INVARIANTS
    ForcedFlushKeeps
