CONSTANTS
    Cell = {c1, c2, c3}
    KProc = kproc
    PID_MIN = 2
    PID_MAX = 5
    Status = {0}
    OutOfMemory = FALSE
    NULL = null
    Garbage = garbage
SPECIFICATION PidSpec
CHECK_DEADLOCK FALSE
INVARIANT WaitsForOwnChild
