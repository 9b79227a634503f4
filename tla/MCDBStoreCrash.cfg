SPECIFICATION Spec
CONSTANTS
    NULL = NULL
    WriteBuffer = 1
    L0Trigger = 4
    MaxSeq = 3
    MaxOpens = 3
    MaxFail = 0
    MaxForce = 0
INVARIANTS
    ProcessCrashLosesNothing
