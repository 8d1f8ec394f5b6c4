SPECIFICATION Spec
CONSTANTS
    Names = {queue}
    Values = {a}
    Unset = Unset
    ElementSize = 2
    Align = 2
    ChunksPerAlloc = 2
    High = 17
    MaxElements = 3
    MaxCapacity = 4
INVARIANT DataIntegrity
CHECK_DEADLOCK FALSE
