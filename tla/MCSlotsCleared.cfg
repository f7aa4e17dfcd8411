SPECIFICATION Spec
CONSTANTS
    SlotCount = 1
    Callers = {c1}
    Texts = {t1}
    Absent = Absent
    Malformed = Malformed
    Unknown = Unknown
INVARIANTS ClearedStaysEmpty
