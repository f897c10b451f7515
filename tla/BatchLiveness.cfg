SPECIFICATION FairSpec
CONSTANTS
    Jobs = {1, 2, 3}
    Runs = {r1}
    KeyOf <- Copies
    MaxWaves = 6
    ChunkSize = 1
    Passes = 9
    Unbuildable <- Offer3TooLong
    Breakable = {}
    ListsRunning = FALSE
    CacheExpires = FALSE
    MaxEdits = 0
    MaxFaults = 1
    MaxRetries = 0
    NoRun = NoRun

    
PROPERTIES
    RunSettles
    
CHECK_DEADLOCK FALSE
