\* One instance, and another thread that logs at any time.
CONSTANTS
    D = D
    P = P
    n1 = n1
    n2 = n2
    n3 = n3
    xb = xb
    NONE = NONE
    Dump = Dump
    Dirs = {D, P}
    DefaultDir = D
    Names = {n1, n2, n3}
    MAX_LOG_SESSIONS = 1
    Families = {xb}
    Xbox = xb
    Levels = {1, 3}
    Serialised = FALSE
    MaxStarts = 1
    MaxLines = 1
SPECIFICATION Spec
INVARIANT
    NoUseAfterFree
SYMMETRY NameSymmetry
CHECK_DEADLOCK FALSE
