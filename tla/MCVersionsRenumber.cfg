SPECIFICATION Spec
CONSTANTS
    NumKeys = 2
    NumLevels = 3
    L0Trigger = 2
    MaxMemLevel = 2
    LevelBytes <- Bytes
    GrandBytes = 2
    ExpandBytes = 8
    FileBytes = 2
    Ranges <- TopAndNext
    MaxSeq = 4
    MaxSnaps = 1
    MaxOpen = 1
INVARIANTS
    LevelsDisjoint
CHECK_DEADLOCK FALSE
