CONSTANTS
    Programs <- MCPrograms
    Startable <- MCStartable
    Start <- MCStart
    Outcomes <- MCOutcomes
    Places <- MCPlaces
    Printed <- MCPrinted
    Characters <- MCCharacters
    Replaced = Replaced
    MaxSteps = 6
    HistoryLimit = 2
    Targets = {1, 8}
    WatchRegisters = {8}
    RegisterNames <- MCRegisterNames
    FpuNames <- MCFpuNames
    FPrefixed = {"$fp"}
    Counts = {1, 3}
    HasRoot = TRUE
    NoProgram = NoProgram
    NoMachine = NoMachine
SPECIFICATION Spec
INVARIANTS NothingSavedIsTakenBack OutputIsShown
PROPERTIES CommandsEnd StopsBeforeBreakpoint StopsOnWatch
