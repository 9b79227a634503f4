SPECIFICATION FSpec
CONSTANTS
    NULL = NULL
    Paths = {p1, p2}
    Sharers = {c1, c2}
    Objects = {1, 2, 3}
    Values = {v1}
    MaxHolds = 2
    SharersMake = TRUE
INVARIANT HandlesShared
CHECK_DEADLOCK FALSE
