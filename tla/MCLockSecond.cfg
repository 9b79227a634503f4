SPECIFICATION Spec
CONSTANTS
    NULL = NULL
    i1 = i1
    i2 = i2
    i3 = i3
    p1 = p1
    p2 = p2
    p3 = p3
    a = a
    ab = ab
    Instance = {i1, i2, i3}
    Process = {p1, p2}
    Database <- OneDB
    Proc <- SharedProc
    DB <- OneDBOf
    Children <- OneChild
    Modes <- ReadWrite
    Destroys = FALSE
    MaxOpens = 2
    MaxInodes = 8
    MaxDeaths = 0
INVARIANTS
    Exclusive
