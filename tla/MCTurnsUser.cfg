SPECIFICATION FairSpec
CONSTANTS
    Inputs = {u1, u2}
    Injects = {}
    IdleItems = {}
    Triggers = {}
    Mails = {}
    Features = {"input", "command", "interrupt", "shutdown", "steer"}
    MaxOps = 4
    MaxTurns = 4
    MaxStates = 8
CHECK_DEADLOCK FALSE
INVARIANTS
    StartFindsNoTask
    AtMostOneTerminal
    RunningTurnIsActive
    NothingLost
PROPERTIES
    EveryTurnEnds
