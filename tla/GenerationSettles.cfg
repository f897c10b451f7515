SPECIFICATION FairSpec
CONSTANTS
    Jobs = {1, 2}
    Runs = {1}
    Steps = 2
    Modes <- BatchOnly
    MaxWaves = 4
    Budgets <- Disturbances
    NoRun = NoRun
PROPERTIES
    RunSettles
    StopSettles
    
CHECK_DEADLOCK FALSE
