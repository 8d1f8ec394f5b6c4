SPECIFICATION Spec
CONSTANTS
    Base = 8
    RegionSize = 13
    DescSize = 1
    Table0 = 3
    Grow = 2
    Word = 64
    Sizes <- SmallSizes
    Aligns <- NoAlignment
    MaxHeld = 3
INVARIANTS SizesAddUp
PROPERTIES KeepsPromise
CHECK_DEADLOCK FALSE
