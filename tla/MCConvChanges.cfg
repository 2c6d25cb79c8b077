SPECIFICATION Spec
CONSTANTS
    Users = {alice, bob}
    Clients = {c1}
    Requests = {r1}
    Ops = {"edit", "delete", "pin", "block"}
    PinsMax = 1
    MaxMsgs = 2
    MaxVer = 1
    MaxPts = 4
SYMMETRY Symmetry
INVARIANTS
    TypeOK
    PinsAreVisible
    NoRowTellsOfWithheld
PROPERTIES
    JournalTellsEverything
CHECK_DEADLOCK FALSE
