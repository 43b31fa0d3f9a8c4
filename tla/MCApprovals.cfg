SPECIFICATION FairSpec
CONSTANTS
    Conns = {k1, k2}
    MaxTurns = 2
    MaxAsks = 2
    MaxInputs = 2
    MaxMoves = 1
CHECK_DEADLOCK FALSE
INVARIANTS
    TypeOK
    DecidedByClient
    AbortedOnlyWithTurn
    EveryJoinedAsked
PROPERTIES
    EveryAskEnds
