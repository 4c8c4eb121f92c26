\* Three instances over one disk, one or two lines of each, deaths anywhere.
CONSTANTS
    D = D
    P = P
    n1 = n1
    n2 = n2
    n3 = n3
    xb = xb
    NONE = NONE
    Dump = Dump
    Dirs = {D, P}
    DefaultDir = D
    Names = {n1, n2, n3}
    MAX_LOG_SESSIONS = 1
    Families = {xb}
    Xbox = xb
    Levels = {1, 3}
    Serialised = TRUE
    MaxStarts = 3
    MaxLines = 2
SPECIFICATION Spec
INVARIANTS
    TypeOK
    EnvTruth
    OnDisk
PROPERTY
    Retention
SYMMETRY NameSymmetry
CHECK_DEADLOCK FALSE
