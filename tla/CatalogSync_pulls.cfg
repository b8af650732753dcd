SPECIFICATION PullSpec
CONSTANTS
    Absent = Absent
    k1 = k1
    k2 = k2
    a = a
    b = b
    x = x
    y = y
    Keys = {k1, k2}
    Contents = {a, b}
    Labels = {x, y}
    GraceRuns = 3
    MaxPulls = 6
INVARIANT OffAfterGrace
INVARIANT RowIsFirstListing
CHECK_DEADLOCK FALSE
