SPECIFICATION Spec
CONSTANTS
    Slots = {s1}
    PageSize = 1
    WindowMax = 2
    Ops = {}
    MaxMsgs = 2
    MaxPts = 2
PROPERTIES
    NewerThanSnapshotKept
CHECK_DEADLOCK FALSE
