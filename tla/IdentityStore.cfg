SPECIFICATION Spec
CONSTANTS
    Absent = Absent
    Partial = Partial
    NoName = NoName
    NoUrl = NoUrl
    DefaultUrl = DefaultUrl
    Inits = {i1, i2, i3}
    Setters = {s1, s2}
INVARIANTS TypeOK LoadConsistent CreatedLoads
PROPERTIES KeyNeverOverwritten ServerUrlKept
CHECK_DEADLOCK FALSE
