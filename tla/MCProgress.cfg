CONSTANTS
    Parts = {"uart", "interrupts", "alarms", "log"}
    Uses = {"write", "read", "polled"}
    Few = 2
    FifoDepth = 1
    Margin = 0
    Numbers = 4
    BufLen = 2
    IntMax = 4
    DefaultTimeout = 2
    Timeouts = {}
    Writes = {2}
    Reads = {2}
    Typing = TRUE
SPECIFICATION MCFairSpec
PROPERTIES
    CallsEndAndArrive
    ProgramResumes
CHECK_DEADLOCK FALSE
