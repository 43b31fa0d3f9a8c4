SPECIFICATION Spec
CONSTANTS
    Inputs = {u1}
    Injects = {j1}
    IdleItems = {}
    Triggers = {t1}
    Mails = {}
    Features = {"input", "command", "mail", "guardian", "inject"}
    MaxOps = 3
    MaxTurns = 3
    MaxStates = 6
CHECK_DEADLOCK FALSE
INVARIANTS
    ActiveTaskIsAlive
