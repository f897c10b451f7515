SPECIFICATION FairSpec
CONSTANTS
    Runs = {1, 2}
    Earlier = {2}
    Modes <- BothModes
    MaxAsked = 2
    MaxFailures = 1
INVARIANTS
    OneAtATime
    
PROPERTIES
    
    BatchesFollowed
CHECK_DEADLOCK FALSE
