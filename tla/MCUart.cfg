CONSTANTS
    Parts = {"uart"}
    Uses = {"write", "read", "both", "polled"}
    Few = 2
    FifoDepth = 2
    Margin = 1
    Numbers = 6
    BufLen = 3
    IntMax = 4
    DefaultTimeout = 2
    Timeouts = {0, 2}
    Writes = {0, 1, 3}
    Reads = {0, 1, 3}
    Typing = TRUE
SPECIFICATION MCSpec
INVARIANTS
    UartTypeOK
    NoneStranded
    WaitIsJustified
PROPERTIES
    AreStreams
