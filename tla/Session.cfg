\* Two clients, rings of one message and two commands, one log line of the application.
CONSTANTS
    c1 = c1
    c2 = c2
    e1 = e1
    e2 = e2
    e3 = e3
    l1 = l1
    NL = NL
    NONE = NONE
    Conns = {c1, c2}
    Commands = {e1, e2, e3, l1}
    Stream <- MCStream
    Kind <- MCKind
    LogCapacity = 1
    CmdCapacity = 2
    MaxLogs = 1
SPECIFICATION FairSpec
INVARIANTS
    TypeOK
    OnePlace
    ExecutedInOrder
PROPERTIES
    EveryCommandEnds
    ImplementsService
CHECK_DEADLOCK FALSE
