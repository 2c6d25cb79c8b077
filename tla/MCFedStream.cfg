SPECIFICATION Spec
CONSTANTS
    MaxSeq = 2
    Slots = {s1, s2}
    BatchMax = 1
    MaxAttempts = 2
    MissingMax = 1
    RecentMax = 1
    MaxFaults = 1
SYMMETRY Symmetry
INVARIANTS NothingLost TwiceOnlyWhenMixed HolesHaveACause
CHECK_DEADLOCK FALSE
