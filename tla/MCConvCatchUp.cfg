SPECIFICATION FairSpec
CONSTANTS
    Entities = {e1, e2}
    Values = {u, w}
    MaxPts = 3
    Numbers <- MCNumbers
    Limit = 1
INVARIANTS
    TypeOK
    NothingMissed
    CatchUpInv
    CaughtUpIsRight
PROPERTIES
    EndsUpCaughtUp
CHECK_DEADLOCK FALSE
