CONSTANTS
    Texts = {short, long}
    LongTexts = {long}
    Passwords = {p}
    NoPassword = none
    Attempts = 2
    IdSpace = 5
    Depth = 2
    MaxCalls = 2
    MaxProcesses = 2
    MaxFaults = 1
    Drained = FALSE
SPECIFICATION Spec
INVARIANTS StaleDiscarded
CHECK_DEADLOCK FALSE
