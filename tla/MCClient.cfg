CONSTANTS
    Texts = {short, long}
    LongTexts = {long}
    Passwords = {p}
    NoPassword = none
    Attempts = 2
    IdSpace = 5
    Depth = 2
    MaxCalls = 2
    MaxProcesses = 2
    MaxFaults = 1
    Drained = TRUE
SPECIFICATION FairSpec
INVARIANTS SuccessIsTrue UnconfirmedIsOld IdsAreFresh
PROPERTIES CallEnds
CHECK_DEADLOCK FALSE
