\* One global over four variables, two calls of exec of at most three steps.
CONSTANTS
    a = a
    NUL = NUL
    hp = hp
    name = name
    Names = {g}
    g = g
    Objects <- MCObjects
    Numbers = {1}
    Indices = {0, 1, 2, 3}
    Texts <- MCTexts
    Chars = {a}
    IntWidth = 1
    MaxSeen = 3
    Callbacks = {"pause"}
    MAX_OPS = 3
    MaxPcalls = 1
    CleanExecs = 1
    MaxExecs = 2
SPECIFICATION FairSpec
INVARIANTS
    TypeOK
    Terminated
    ArrayInOrder
    KeysAreFound
    ExecClean
PROPERTIES
    OneVariable
    ExecReturns
CHECK_DEADLOCK FALSE
