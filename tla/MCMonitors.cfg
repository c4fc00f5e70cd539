SPECIFICATION FairSpec
CONSTANTS
    Cameras = {"cam-1", "cam-2"}
    Monitors = {"people", "cars"}
    Edited = {"people", "cam-2"}
    Placed <- MCPlaced
INVARIANTS
    TypeOK
    StatusMatchesRules
    FaultsAreExplained
    HealthTellsFailures
    NothingLeftBehind
PROPERTIES
    StatusSettles
