CONSTANTS
    ByteMod = 8
    PageSize = 4
    MaxPages = 16
    Regions <- MCWideRegions
    DataBase = 128
    DataLimit = 140
    Strict = TRUE
    Lines <- MCLines
    Feeds <- MCFeeds
    InputLimit = 4
    OutputLimit = 4
    TokenLimit = 2
    Newline = 1
    Plus = 9
    Minus = 3
    Blanks <- MCBlanks
    Digits <- MCDigits
    MaxDigits = 1
    IntMax = 2047
    Escapes = {"provider", "sink", "digits"}
    MaxOpen = 1
    MaxFileBytes = 2
    MaxTotalBytes = 2
    WordBits = 12
    HalfMod = 64
    OctetMod = 8
    Registers <- MCRegisters
    FpuRegisters <- MCFpuRegisters
    Boots <- InterruptedBoots
    Sentinel = 4092
    TextBase = 64
    DataInitial = 8
    StackBase = 192
    StackTop = 204
    GlobalPointer = 128
    ArgumentVectors <- MCNoArguments
    MaxSteps = 7
    HistoryLimit = 2
    MaxString = 3
    MaxPath = 3
    Decode <- MCDecode
    Texts <- MCTexts
    NameOf <- MCNameOf
    InvalidPath = InvalidPath
    Undecodable = Undecodable
    HasRoot = FALSE
    HostContents <- MCNoContents
    FloatImages <- MCFloatImages
SPECIFICATION Spec
PROPERTIES InputIsKept OutputGrows
CHECK_DEADLOCK FALSE
