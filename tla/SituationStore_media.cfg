SPECIFICATION Spec
CONSTANTS
    Ids = {i1, i2, i3}
    i1 = i1
    i2 = i2
    i3 = i3
    TTL = 1
    MAX_SIZE = 2
    MaxTime = 3
    MaxSaves = 4
    Nothing = Nothing
INVARIANTS
    TypeOK
    BoundedSize
    PagesShowTheLatest
PROPERTIES
    StoreIsABoundedMap
SYMMETRY IdSymmetry
CHECK_DEADLOCK FALSE
