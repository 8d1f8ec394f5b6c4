SPECIFICATION Spec
CONSTANTS
    Datasets <- DiskOfSeven
    Length <- Chars
    Weight <- Codes
    MaxHandles = 2
    MaxBuffer = 1
    Programs = {p1, p2}
    Paths <- WithNothing
    FOPEN_MAX = 2
    MaxSlots = 3
INVARIANTS LiveSlots DatasetsFound
CHECK_DEADLOCK FALSE
