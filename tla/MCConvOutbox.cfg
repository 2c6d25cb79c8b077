SPECIFICATION Spec
CONSTANTS
    Tabs = {t1, t2}
    MaxKeys = 2
    WithFile = {1}
    MaxAttempts = 2
    NetAttempts = 2
    MaxTroubles = 2
SYMMETRY Symmetry
CONSTRAINT Bound
INVARIANTS SomebodySends OrderKept CancelledStaysOut QueueSurvives
CHECK_DEADLOCK FALSE
