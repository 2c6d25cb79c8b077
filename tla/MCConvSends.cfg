SPECIFICATION Spec
CONSTANTS
    Users = {alice, bob}
    Clients = {c1}
    Requests = {r1, r2}
    Ops = {"read", "mark", "archive", "block", "prune"}
    PinsMax = 0
    MaxMsgs = 2
    MaxVer = 0
    MaxPts = 2
SYMMETRY Symmetry
INVARIANTS
    NoDuplicateSend
PROPERTIES
    JournalTellsEverything
    ReadTicksNeverGoBack
    ReadReceiptTold
    BlockedSeesNoReading
CHECK_DEADLOCK FALSE
