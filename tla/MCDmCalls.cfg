SPECIFICATION FairSpec
CONSTANTS
    Users = {"ann", "bob"}
    Guests = {"guest"}
    Calls = {1, 2}
    Requests = {1, 2}
    MaxFaults = 2
INVARIANTS NothingForgotten RecordedOnce AnsweredIsNotMissed
PROPERTY CutCallsAreClosed
CHECK_DEADLOCK FALSE
