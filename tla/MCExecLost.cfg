SPECIFICATION Spec
CONSTANTS
    MaxOutput = 2
    Retained = 1
    MaxPending = 2
    Writes = FALSE
INVARIANTS
    ClosedIsComplete
CHECK_DEADLOCK FALSE
