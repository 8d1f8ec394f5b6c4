SPECIFICATION Spec
CONSTANTS
    Base = 8
    RegionSize = 15
    DescSize = 1
    Table0 = 8
    Grow = 4
    Word = 64
    Sizes <- SmallSizes
    Aligns <- HalfwordAligns
    MaxHeld = 3
INVARIANTS RegionIsWhole UsedIsHeld
PROPERTIES AllocAligned
