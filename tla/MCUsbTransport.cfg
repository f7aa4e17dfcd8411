SPECIFICATION LiveSpec
CONSTANTS
    QueueDepth = 2
    Statuses = {"RESET", "CONFIGURED", "SUSPEND", "SET_HALT", "DISCONNECTED"}
    GenerationWrap = 8
    MaxChanges = 5
INVARIANTS ServedInItsGeneration PermitIsExclusive QueueIsAttended PermitComesBack
PROPERTIES OnlineInTheEnd
CHECK_DEADLOCK FALSE
