SPECIFICATION Spec
CONSTANTS
    Keys = {g, t}
    SharedKeys = {g}
    Conns = {c1}
    NoKey = NoKey
    NoGate = NoGate
    MaxRequests = 3
CHECK_DEADLOCK FALSE
INVARIANTS
    ExclusiveRunsAlone
    ServedInOrder
    QueuedHasDrainer
PROPERTIES
    ServicePromise
