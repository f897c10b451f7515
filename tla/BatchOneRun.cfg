SPECIFICATION Spec
CONSTANTS
    Jobs = {1, 2}
    Runs = {r1}
    KeyOf <- Distinct
    MaxWaves = 6
    ChunkSize = 1
    Passes = 9
    Unbuildable <- NoUnbuildable
    Breakable = {r1}
    ListsRunning = FALSE
    CacheExpires = FALSE
    MaxEdits = 1
    MaxFaults = 1
    MaxRetries = 0
    NoRun = NoRun
INVARIANTS
    TypeOK
    SubmitOnce
    InFlightReserved
    PaidResultsConsumed
PROPERTIES
    PublishesCurrent
    StopIsFinal
CHECK_DEADLOCK FALSE
