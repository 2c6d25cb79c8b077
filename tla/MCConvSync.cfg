SPECIFICATION FairSpec
CONSTANTS
    Entities = {a, b}
    Limit = 1
    MaxPts = 2
INVARIANTS
    NothingSkipped
    LiveMissesNothing
    SomebodyActs
PROPERTIES
    EndsUpLive
CHECK_DEADLOCK FALSE
