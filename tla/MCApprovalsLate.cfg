SPECIFICATION Spec
CONSTANTS
    Conns = {k1}
    MaxTurns = 2
    MaxAsks = 1
    MaxInputs = 2
    MaxMoves = 0
CHECK_DEADLOCK FALSE
INVARIANTS
    WithdrawnWithItsTurn
