SPECIFICATION Spec
CONSTANTS
    Jobs = {1}
    Runs = {1, 2}
    Steps = 2
    Modes <- BothModes
    MaxWaves = 2
    Budgets <- Resumptions
    NoRun = NoRun
INVARIANTS
    TypeOK
    OneOwner
PROPERTIES
    NeverResent
    AnswersKept
    
CHECK_DEADLOCK FALSE
