CONSTANTS
    Proc = {p1, p2}
    File = {f1}
    Con = con
    OPEN_MAX = 3
    Modes = {"O_RDWR"}
    ArgFd = {2, 3}
    Dup2Args <- MCDup2Args
    Calls = {"open", "close", "dup2", "read", "write", "lseek", "fork", "execv", "exit"}
    MaxRc = 2
    MaxOff = 1
    OutOfMemory = TRUE
    NULL = null
    NoProc = noproc
    Thread = {t1, t2, t3, t4}
    Nobody = nobody
    MaxCount = 2
    T1 = T1
    T2 = T2
    Menu = Menu
    U = U
    H = H
    Vol = Vol
    emu0 = emu0
    c1 = c1
    c2 = c2
    Nil = Nil
    NoOne = NoOne
    Procs = {P1, P2}
    Machines <- MCMachines
    Program <- MCProgram
    NUM_TLB = 2
    RamPages = 9
    StackPage = 3
    Values = {"w"}
    Written = {2}
    NONE = Nil
SPECIFICATION Spec
SYMMETRY Symmetry
INVARIANTS
    NoDangling RefCount VnodeRefs
    MutualExclusion LockNotForgotten SemNotForgotten
    VolumesHeld SemsAccounted SemNoDeadlock HeapSound MemoryOwn MallocSound
    ArithmeticRight
PROPERTIES HandlesBarExecv ImplementsMonitor
