SPECIFICATION LocksFairSpec
CONSTANTS
    Users = {1, 2}
    Instances = {7}
    Members <- MCMembers
    Homes <- MCHomes
    Txs = {t1, t2}
    Ops = {"pin", "group", "copy", "prune"}
    Scheduled <- MCScheduled
INVARIANT ChangesNeverCircle
PROPERTY EveryChangeEnds
