SPECIFICATION Spec
CONSTANTS
    QueueDepth = 2
    Statuses = {"RESET", "CONFIGURED"}
    GenerationWrap = 8
    MaxChanges = 4
PROPERTIES BufferUnchangedUntilReady
CHECK_DEADLOCK FALSE
