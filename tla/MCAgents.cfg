SPECIFICATION FairSpec
CONSTANTS
    Callers = {c1, c2}
    Agents = {a1, a2}
    Paths = {p1, p2}
    NoAgent = NoAgent
    Held = Held
    Cap = 1
    MaxCalls = 4
    Versions = {TRUE, FALSE}
CHECK_DEADLOCK FALSE
INVARIANTS
    TypeOK
    NeverUndercounted
    KnownWithinLimit
    PathsAgree
    PendingIsHeld
PROPERTIES
    EveryCallReturns
