SPECIFICATION FairSpec
CONSTANTS
    MaxOutput = 0
    Retained = 1
    MaxPending = 1
    Writes = TRUE
INVARIANTS
    WrittenOnce
PROPERTIES
    SessionSettles
    OrphanEnds
CHECK_DEADLOCK FALSE
