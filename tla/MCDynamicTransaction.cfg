SPECIFICATION TransactionLiveSpec
CONSTANTS
    SlotCount = 2
    SlotMaxLen = 2
    LegacyMaxLen = 1
    MinTtl = 1
    MaxTtl = 1
    GenerationWrap = 2
    MaxUploads = 2
    Ids = {1, 2}
    TransactionTimeout = 2
INVARIANTS TransactionTypeOK InStep TimeoutCovers
PROPERTIES AbandonedIsDropped ToldWhatHappened NoEarlyTimeout
