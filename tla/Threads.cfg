CONSTANTS
    Cell = {c1, c2}
    KProc = kproc
    PID_MIN = 2
    PID_MAX = 3
    Status = {0}
    OutOfMemory = TRUE
    NULL = null
    Garbage = garbage
    w1 = w1
    NoCPU = NoCPU
SPECIFICATION Spec
CHECK_DEADLOCK FALSE
INVARIANTS
    OwnsPid ChildrenKept WaiterSafe
    OneCpuPerStack OnePlace IdleHasNoWork LevelsBalance
PROPERTIES ExitWakesWaiter ReadyRuns
