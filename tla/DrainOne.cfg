\* One thread drains: the discipline the documentation describes.
CONSTANTS
    p1 = p1
    p2 = p2
    worker = worker
    i1 = i1
    i2 = i2
    i3 = i3
    Producers = {p1, p2}
    Consumers = {worker}
    Items = {i1, i2, i3}
    Capacity = 2
    SizeT = 16
    NULL = NULL
SPECIFICATION LFairSpec
INVARIANTS
    NoOverwrite
    Conservation
    LTypeOK
    NoUseAfterFree
    NoLeak
    WireInOrder
    NeverOverReports
PROPERTIES
    ImplementsChannel
    Delivery
    DropsAreWarnedOf
CHECK_DEADLOCK FALSE
