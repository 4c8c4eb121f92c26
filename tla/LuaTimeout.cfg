\* Scripts without variables: one of them never ends.
CONSTANTS
    a = a
    NUL = NUL
    hp = hp
    name = name
    Names = {g}
    g = g
    Objects = {}
    Numbers = {1}
    Indices = {0, 1, 2, 3}
    Texts <- MCTexts
    Chars = {a}
    IntWidth = 1
    MaxSeen = 2
    Callbacks = {"pause"}
    MAX_OPS = 3
    MaxPcalls = 1
    CleanExecs = 0
    MaxExecs = 1
SPECIFICATION FairSpec
PROPERTY TimeoutEnds
CHECK_DEADLOCK FALSE
