SPECIFICATION FairSpec
CONSTANTS
    Procs = {p1, p2}
    Threads = {t1}
    Inodes = {i1, i2}
    NoInode = NoInode
    NoTask = NoTask
    MaxOps = 5
    MaxCrashes = 1
    MaxErrors = 2
CHECK_DEADLOCK FALSE
INVARIANTS
    AtMostOneWriter
    GuardIsAtPath
    RefusalIsReal
PROPERTIES
    NotMovedUnderWriter
    EveryCallReturns
