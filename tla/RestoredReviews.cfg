SPECIFICATION Spec
CONSTANTS
    N = 3
    Worlds <- AllWorlds
    MaxMoves = 3
    MaxSearches = 2
    MaxQuits = 1
INVARIANT
    SetAsideIsAsked
CHECK_DEADLOCK FALSE
