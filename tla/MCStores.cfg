CONSTANTS
    Device = {"null", "uart"}
    FileSystem = {"fs"}
    DevNull = "null"
    None = "none"
    FdCount = 5
    Thread = {t1, t2}
    Asked = {{"rd", "wr"}}
    Arg = {{"rd"}, {"rd", "nonblock"}}
    Used = {2, 3, 4}
    Refused = {5, 11}
    Amounts = {0, 3}
    Functions = {{"read", "write"}, {"read", "write", "ioctl"}, {"read", "lseek", "fstat"}}
    Ticks = {}
    Letters = {"a"}
    Slash = "/"
    Nul = "nul"
    NameLen = 3
    MaxDevices = 2
    MaxChannels = 1
    MaxNames = 3
    Start = 4
    Limit = 24
    HeapWord = 4
    WordGrow = {4, 8}
    WordShrink = {4}
    AnyGrow = {3, 5, 8}
    AnyShrink = {1, 4}
    NoLimit = NoLimit
    ExceptionLimit = ExceptionLimit
    MaxBlocks = 4
    MemLines = 3
    LineBytes = 2
    DSets = 2
    ISets = 2
    Lengths = {1, 2, 5}
    NoBlock = NoBlock
    MaxStores = 2
    HalfWord = 4
    MaxClocks = 11
    WordBits = 8
    PrintWords = {0, 9, 16, 127, 128, 255}
    FormatChars = {"%", "0", "2", ".", "l", "d", "X", "x", "s", "c"}
    FormatLen = 4
    StringLen = 3
    BufferLen = 3
    NetNodes = 2
    NetCosts <- TwoCosts
    WaitCost = 10
    NetRuns = 1
    PathLen = 5
    QueueLen = 6
    EntryValues = 16
    QueueKeys = {1, 2, 3}
    QueueItems = {7, 8}
    QueuePairs = 4
SPECIFICATION MCSpec
SYMMETRY Symmetry
INVARIANTS
    TypeOK
    MemoryKept
PROPERTIES
    FilesKept
    CachesAgree
    ReportsRight
    WorkloadsCorrect
CHECK_DEADLOCK FALSE
