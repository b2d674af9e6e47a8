CONSTANTS
    Programs <- MCPrograms
    Startable <- MCStartable
    Start <- MCStart
    Outcomes <- MCOutcomes
    Places <- MCPlaces
    Printed <- MCPrinted
    Characters <- MCCharacters
    Replaced = Replaced
    MaxSteps = 8
    HistoryLimit = 3
    Targets = {1, 8}
    WatchRegisters = {8, 30}
    RegisterNames <- MCFrameNames
    FpuNames <- MCFpuNames
    FPrefixed = {"$fp"}
    Counts = {1, 3}
    HasRoot = TRUE
    NoProgram = NoProgram
    NoMachine = NoMachine
SPECIFICATION Spec
INVARIANTS RegistersCanBeWatched
