\* Two producers: LOGGING.md says that try_enqueue fails when the ring is full.
CONSTANTS
    p1 = p1
    p2 = p2
    c1 = c1
    i1 = i1
    i2 = i2
    i3 = i3
    i4 = i4
    i5 = i5
    Producers = {p1, p2}
    Consumers = {c1}
    Items = {i1, i2, i3, i4, i5}
    Capacity = 2
    SizeT = 16
    NULL = NULL
SPECIFICATION Spec
PROPERTY DropOnlyWhenFull
CHECK_DEADLOCK FALSE
