\* The worker (on_tick) and a reader (on_data) drain at the same time.
CONSTANTS
    p1 = p1
    worker = worker
    reader = reader
    i1 = i1
    i2 = i2
    i3 = i3
    Producers = {p1}
    Consumers = {worker, reader}
    Items = {i1, i2, i3}
    Capacity = 2
    SizeT = 16
    NULL = NULL
SPECIFICATION LSpec
SYMMETRY Symmetry
INVARIANT WireInOrder
CHECK_DEADLOCK FALSE
