SPECIFICATION Spec
CONSTANTS
    Jobs = {1}
    Runs = {r1, r2}
    KeyOf <- Distinct
    MaxWaves = 8
    ChunkSize = 1
    Passes = 9
    Unbuildable <- NoUnbuildable
    Breakable = {}
    ListsRunning = TRUE
    CacheExpires = TRUE
    MaxEdits = 0
    MaxFaults = 1
    MaxRetries = 1
    NoRun = NoRun
SYMMETRY RunSymmetry
INVARIANTS
    NoDoublePurchase
    
PROPERTIES
    PaysOnlyForMissing
CHECK_DEADLOCK FALSE
