SPECIFICATION Spec
CONSTANTS
    Datasets <- DiskOfSeven
    Length <- Chars
    Weight <- Codes
    MaxHandles = 2
    MaxBuffer = 1
    Programs = {p1}
    Paths <- OnlyOut
    FOPEN_MAX = 4
    MaxSlots = 3
INVARIANTS AllAreFound FindsItsOwn
PROPERTY GivesUpOnFailure
CHECK_DEADLOCK FALSE
