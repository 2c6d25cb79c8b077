SPECIFICATION FairSpec
CONSTANTS
    People = {"ann", "bob"}
    Hooks = {"hook"}
    MaxMoves = 3
    MaxFaults = 2
INVARIANT OccupiedIsWatched
PROPERTIES ClockKept GhostsExpire ClientsFollow
CHECK_DEADLOCK FALSE
