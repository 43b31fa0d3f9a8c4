SPECIFICATION FairSpec
CONSTANTS
    Keys = {g}
    SharedKeys = {g}
    Conns = {c1, c2}
    NoKey = NoKey
    NoGate = NoGate
    MaxRequests = 2
CHECK_DEADLOCK FALSE
INVARIANTS
    QuietAfterDrain
    QuiescentStop
PROPERTIES
    EveryRequestSettles
    GracefulStopEnds
