CONSTANTS
    User = {"u1", "u2"}
    Kernel = {"k1", "k2"}
    Polled = {"p1", "p2"}
    Reader = {"r1", "r2"}
    Menu = {"m"}
    Casts <- MCCasts
    BufSize = 3
    NoOne = NoOne
    NoChar = NoChar
    Client = {A, B}
    Blocks = 2
    SectSize = 2
    MaxResid = 5
    Thread = {A, B}
    Cell = {"c1", "c2"}
    Hand = {"h1", "h2"}
    MaxRetry = 1
    None = None
    Second = 7
    Small = 3
    Horizon = 22
SPECIFICATION Spec
CHECK_DEADLOCK FALSE
INVARIANTS OutputWhole InputInOrder TransferMine HandlesSound TimeWithin
PROPERTIES OnlyAsked CallsEnd CallsReturn SlotServed
