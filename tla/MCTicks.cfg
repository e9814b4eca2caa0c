CONSTANTS
    NIrq = 2
    Handler = {"h1", "h2"}
    Null = "null"
    Retracts = TRUE
    CallsInIsr = FALSE
    ExceptionHandler = TRUE
    ExtraInfo = TRUE
    MaxRaises = 3
    MaxFaults = 1
    MaxCritical = 2
    Systems <- MCSystems
    IntMax = 7
    DefaultTimeout = 3
    CpuFreq = 50
    Periods <- MCPeriods
    Objects = 2
    Alarm = {"a1", "a2", "a3"}
    AlarmWord = 4
    Intervals = {0, 2}
    Repeats = {0, 1, 3}
    Careful = TRUE
    US = 10
    TickWord = 64
    Rates = {5, 10}
    MaxTicks = 31
    MaxSec = 2
    PieceWord = 2
    Pieces = 4
    FunctionAddrs = {1, 3}
    Callers = {"a", "b"}
    CallGraph <- MCCallGraph
    HashSize = 2
    SlabEntries = 3
    TextBytes = 4
    BucketBytes = 2
    MaxCalls = 2
    MaxSamples = 1
    EchoLen = 3
    Interval = 1
    ReportTicks = 1
    Levels <- MCLevels
    Depth = 2
    MaxLen = 3
    MaxWrites = 1
    LogTicks = 3
    LoopWord = 64
    CountMax = 31
    CyclesPerUs = 50
    CyclesPerLoop = 9
    Reloads = {TRUE, FALSE}
    Delays <- MCDelays
SPECIFICATION MCSpec
INVARIANTS
    TypeOK
    AlarmsOnTime
    TimesRead
    ArcsCounted
    LogWhole
PROPERTIES
    IsrsNest
CHECK_DEADLOCK FALSE
