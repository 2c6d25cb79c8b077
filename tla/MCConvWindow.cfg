SPECIFICATION Spec
CONSTANTS
    Slots = {s1, s2}
    PageSize = 1
    WindowMax = 2
    Ops = {"edit", "delete", "scroll", "jump", "send", "reset", "token"}
    MaxMsgs = 3
    MaxPts = 4
CONSTRAINT Bound
SYMMETRY Symmetry
INVARIANTS
    FeedIsRight
    FeedHasNoHoles
PROPERTIES
    GoneStaysGone
    NoGhostFromLateEvent
CHECK_DEADLOCK FALSE
