SPECIFICATION Spec
CONSTANTS
    Base = 5
    Align = 2
    Page = 8
    Word = 64
    Threads = {p, q}
    NoThread = NoThread
    Reserved = 16
    Committed = 8
    Ops = {"alloc", "dealloc", "temp"}
    Sizes = {2, 5}
    MaxCalls = 3
SYMMETRY Symmetric
INVARIANTS Inv BlocksUsable GrowthAligned QuietPosCommitted
\* The calls are bounded, the arena is freed or the process exits.
CHECK_DEADLOCK FALSE
