SPECIFICATION Spec
CONSTANTS
    SlotCount = 2
    Callers = {c1, c2}
    Texts = {t1, t2}
    Absent = Absent
    Malformed = Malformed
    Unknown = Unknown
SYMMETRY CallerTextSymmetry
INVARIANTS TypeOK AcceptedIsKept MarkerIsHonest
PROPERTIES DefaultsPreserve
