SPECIFICATION FairSpec
CONSTANTS
    Inputs = {u1}
    Injects = {}
    IdleItems = {w1}
    Triggers = {t1}
    Mails = {q1}
    Features = {"mail", "steer", "idlework", "defer", "sleep"}
    MaxOps = 3
    MaxTurns = 6
    MaxStates = 8
CHECK_DEADLOCK FALSE
INVARIANTS
    StartFindsNoTask
    NothingLost
PROPERTIES
    WakingMailIsRead
    ReservationEnds
