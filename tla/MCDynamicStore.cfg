SPECIFICATION LiveSpec
CONSTANTS
    SlotCount = 2
    SlotMaxLen = 2
    LegacyMaxLen = 1
    MinTtl = 1
    MaxTtl = 2
    GenerationWrap = 2
    MaxUploads = 2
INVARIANTS TypeOK WholeUploads TimerCovers
PROPERTIES ExecutesInTimeAndOnce NoSilentLoss DueIsCleared
