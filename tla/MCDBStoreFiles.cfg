SPECIFICATION Spec
CONSTANTS
    NULL = NULL
    WriteBuffer = 1
    L0Trigger = 4
    MaxSeq = 4
    MaxOpens = 4
    MaxFail = 2
    MaxForce = 1
INVARIANTS
    TypeOK
    OneLoadKept
PROPERTIES
    LogNumbersSound
    NumbersFresh
