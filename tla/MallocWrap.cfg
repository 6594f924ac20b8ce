\* The allocator of libc with a size_t of 64 values, asked for its largest.
SPECIFICATION Spec

CONSTANTS
    Sizes = {1, 9, 63}
    MBLOCKSIZE = 2
    SIZE_MAX = 63
    PageUnits = 4
    MaxTop = 12
    MaxGiven = 3

INVARIANT AllocatesSize

CHECK_DEADLOCK FALSE
