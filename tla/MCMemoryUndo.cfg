CONSTANTS
    ByteMod = 2
    PageSize = 2
    MaxPages = 3
    Regions <- MCRegions
    DataBase = 4
    DataLimit = 8
    Strict = TRUE
    InitialMemory <- MCInitialMemory
    Payloads <- MCPayloads
    Alignments <- MCAlignments
    HistoryLimit = 2
SPECIFICATION Spec
INVARIANTS TypeOK UndoChain PageLimit
PROPERTIES NoUnloggedChange
CHECK_DEADLOCK FALSE
