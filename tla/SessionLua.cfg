\* The reader walks the Lua state while update() executes.
CONSTANTS
    c1 = c1
    c2 = c2
    e1 = e1
    e2 = e2
    e3 = e3
    l1 = l1
    NL = NL
    NONE = NONE
    Conns = {c1, c2}
    Commands = {e1, e2, e3, l1}
    Stream <- MCStream
    Kind <- MCKind
    LogCapacity = 1
    CmdCapacity = 2
    MaxLogs = 1
SPECIFICATION Spec
INVARIANT LuaOnOneThread
CHECK_DEADLOCK FALSE
