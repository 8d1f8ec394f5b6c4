SPECIFICATION HelpersSpec
CONSTANTS
    Names = {queue, pool}
    Values = {a}
    Unset = Unset
    ElementSize = 2
    Align = 2
    ChunksPerAlloc = 2
    High = 17
    MaxElements = 3
    MaxCapacity = 4
    ByteBits = 1
    Rounds = 4
    PointerWords = 2
    Shifts <- MCShifts
    Delta = 9
    XteaRounds = {1, 3}
    Keys <- MCKeys
    XteaKeys <- MCXteaKeys
    Leftovers = {0, 5}
    OwnKeys = FALSE
    Alphabet = {33, 47, 65, 97}
    MaxLength = 3
    Buffer = 7
    FormatSet <- MCFormats
    RoomSet = {2, 5, 20}
    Dictionary <- MCWords
    LineLength = 10
    Garbage = {32, 57}
    EnvNames <- MCEnvNames
    EnvValues <- MCEnvValues
    NoEnviron = NoEnviron
    MaxEnviron = 3
    RegistryNames <- MCRegistryNames
    MaxDepth = 3
    MaxGroups = 4
    MaxKeys = 2
    KeepsPointers = FALSE
    CharIsSigned = FALSE
    GlBits <- MCGlBits
    GlSamples <- MCGlSamples
    MaxCommands = 2
    FileSet <- MCFileSet
    UnitBits = 2
    PageUnits = 4
    LoadBase = 100
INVARIANTS RsaDecrypts BoundIsKept TellsNamesApart PathsSurvive NewlinesAreBlank KernelPrintsNumbers StaysInBuffer FractionsSurvive LibraryStaysInBuffer ReadsHexadecimal SetsWhatIsNew SignedBytesArrive RelocationsTakeEffect ListHasRoom SymbolsInPlace
PROPERTIES OverwriteUpdates EndNeedsBegin
CHECK_DEADLOCK FALSE
SYMMETRY Symmetry
