CONSTANTS
    MaxOpen = 1
    MaxFileBytes = 1
    MaxTotalBytes = 1
    Paths = {1, 2}
    HostContents <- MCHostContents
    Flags <- MCFlags
    Payloads <- MCPayloads
    Counts = {1}
    HistoryLimit = 1
    Shared = {1}
    MaxOutside = 1
    AssemblyModes = {"check", "hex"}
    Statuses <- MCStatuses
    Codes = 256
SPECIFICATION Spec
INVARIANTS TypeOK CleanMeansSaved CacheIsNotOutdated
PROPERTIES HostGetsStagedFiles SavedOnlyAfterSuccess SuccessMeansSaved
