SPECIFICATION Spec
CONSTANTS
    MaxOutput = 2
    Retained = 2
    MaxPending = 1
    Writes = FALSE
INVARIANTS
    NoDeadSession
PROPERTIES
    StreamPromise
CHECK_DEADLOCK FALSE
