SPECIFICATION Spec
CONSTANTS
    small = small
    medium = medium
    large = large
    none = none
    tuned = tuned
    Programs = {small, medium, large}
    Options = {none, tuned}
    NoOptions = none
    Requests <- MCRequests
    ProgramBytes <- MCProgramBytes
    OptionBytes = 1
    MaxEntries = 2
    MaxKeyBytes = 5
    WithDisk = TRUE
    TrimOnStore = TRUE
    MaxCalls = 4
    MaxDamage = 1
    Procs = {1, 2, 3}
    KeyCount = 2
    Namespace <- MCNamespace
    Limit <- MCLimit
    EntryBytes <- MCEntryBytes
    AutoTrim = {1}
    Budget = 2
    MaxOps = 3
    MaxCrashes = 1
    MaxRot = 1
INVARIANTS
    CacheAccounts
    RightExecutable
    EntriesSound
PROPERTIES
    NeverReplaced
    TrimIsSound
