SPECIFICATION PartsSpec
CONSTANTS
    Low = 2
    High = 40
    RegionTable = 1
    PageSize = 2
    MaxPages = 4
    MaxSegments = 8
    TableSize = 1
    SegtabSize = 2
    BootImages <- Nothing
    Images <- OnlyProgram
    Terminals = {TRUE, FALSE}
    BufferSize = 4
    FileSize = 3
    MainStack = 3
    StackSize = 2
    Requests = {1, 3}
    Entries = {"text"}
    MaxCalls = 1
    Volumes = {}
    Nobody = Nobody
    MaxFaults = 2
    RecordsPerTrack = 3
    TracksPerCylinder = 2
    NumCylinders = 3
    KernelName = "KERNEL"
    IrbAddress = 99
    MaxIplFaults = 1
PROPERTY StartsWhereAsked
CHECK_DEADLOCK FALSE
