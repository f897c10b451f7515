SPECIFICATION Spec
CONSTANTS
    N = 3
    Worlds <- AllWorlds
    MaxMoves = 3
    MaxSearches = 2
    MaxQuits = 1
INVARIANTS
    DossierAtRoot
    LinksEnd
PROPERTIES
    CollectionSparesWork
    CopiesStayVisible
    GroupSettled
CHECK_DEADLOCK FALSE
