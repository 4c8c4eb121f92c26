\* A ring of two slots filled, refused and wrapped by five commands, and its liveness.
CONSTANTS
    i1 = i1
    i2 = i2
    i3 = i3
    i4 = i4
    i5 = i5
    Items = {i1, i2, i3, i4, i5}
    Capacity = 2
    SizeT = 32
    NULL = NULL
SPECIFICATION FairSpec
INVARIANT
    NoDataRace
PROPERTIES
    ImplementsFairChannel
    DropOnlyWhenFull
CHECK_DEADLOCK FALSE
