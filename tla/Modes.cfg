SPECIFICATION ModesSpec
CONSTANTS
    Jobs = {1}
    Runs = {r1}
    KeyOf <- Distinct
    MaxWaves = 5
    ChunkSize = 1
    Passes = 9
    Unbuildable <- NoUnbuildable
    Breakable = {}
    ListsRunning = TRUE
    CacheExpires = FALSE
    MaxEdits = 1
    MaxFaults = 1
    MaxRetries = 0
    NoRun = NoRun
    NoJob = NoJob
INVARIANTS
    ModesOnDistinctOffers

    
CHECK_DEADLOCK FALSE
