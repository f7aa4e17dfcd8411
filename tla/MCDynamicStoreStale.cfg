SPECIFICATION Spec
CONSTANTS
    SlotCount = 2
    SlotMaxLen = 1
    LegacyMaxLen = 1
    MinTtl = 1
    MaxTtl = 2
    GenerationWrap = 2
    MaxUploads = 2
PROPERTIES StaleRunExpiresNothing
