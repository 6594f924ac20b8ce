CONSTANTS
    Thread = {t1, t2, t3}
    Name = {a}
    SEMFS_ROOTDIR = 1
    UINT_MAX = 2
    Amount = {1}
    OutOfMemory = FALSE
    NULL = null
    NoThread = nobody
SPECIFICATION Spec
SYMMETRY Symmetry
CHECK_DEADLOCK FALSE
INVARIANT BlocksUntilRaised
