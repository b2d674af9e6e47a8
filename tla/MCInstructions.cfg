CONSTANTS
    ByteMod = 8
    PageSize = 4
    MaxPages = 6
    Regions <- MCRegions
    DataBase = 128
    DataLimit = 140
    Strict = FALSE
    Lines = {}
    Feeds <- MCNoFeeds
    InputLimit = 4
    OutputLimit = 4
    TokenLimit = 2
    Newline = 1
    Plus = 9
    Minus = 3
    Blanks <- MCBlanks
    Digits <- MCDigits
    MaxDigits = 2
    IntMax = 2047
    Escapes = {}
    MaxOpen = 1
    MaxFileBytes = 2
    MaxTotalBytes = 2
    WordBits = 12
    HalfMod = 64
    OctetMod = 8
    Registers <- MCRegisters
    FpuRegisters <- MCFpuRegisters
    Boots <- InstructionBoots
    Sentinel = 4092
    TextBase = 64
    DataInitial = 8
    StackBase = 192
    StackTop = 204
    GlobalPointer = 128
    ArgumentVectors <- MCArgumentVectors
    MaxSteps = 5
    HistoryLimit = 3
    MaxString = 3
    MaxPath = 3
    Decode <- MCDecode
    Texts <- MCTexts
    NameOf <- MCNameOf
    InvalidPath = InvalidPath
    Undecodable = Undecodable
    HasRoot = FALSE
    HostContents <- MCNoContents
    FloatImages <- MCFloatImages
SPECIFICATION Spec
INVARIANTS TypeOK UndoChain SentinelMeansExited ArgumentsAreReadable
PROPERTIES ImplementsReversible StoreDropsReservation
CHECK_DEADLOCK FALSE
