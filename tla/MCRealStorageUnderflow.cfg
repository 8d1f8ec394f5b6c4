SPECIFICATION Spec
CONSTANTS
    Base = 8
    RegionSize = 14
    DescSize = 1
    Table0 = 4
    Grow = 2
    Word = 64
    Sizes <- SmallSizes
    Aligns <- FullwordAligns
    MaxHeld = 3
INVARIANT BlocksFit
