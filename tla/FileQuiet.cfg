CONSTANTS
    Proc = {p1, p2}
    File = {f1}
    Con = con
    OPEN_MAX = 4
    Modes = {"O_RDWR"}
    ArgFd = {0}
    Dup2Args = {}
    Calls = {"close", "read", "fork"}
    MaxRc = 2
    MaxOff = 0
    OutOfMemory = FALSE
    NULL = null
    NoProc = noproc
SPECIFICATION QuietSpec
PROPERTY CloseReturns
