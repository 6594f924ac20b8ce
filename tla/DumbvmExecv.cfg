CONSTANTS
    Procs = {p1, p2}
    c1 = c1
    c2 = c2
    Machines <- MCMachines
    Program <- MCProgram
    NUM_TLB = 2
    RamPages = 9
    StackPage = 3
    Values = {"w"}
    Written = {2}
    NONE = none
SPECIFICATION VmSpec
CHECK_DEADLOCK FALSE
INVARIANT FailedExecvKeepsMemory
