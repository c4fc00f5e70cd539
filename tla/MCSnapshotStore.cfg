SPECIFICATION MCSpec
CONSTANTS
    Monitors = {gate}
    MaxEvents = 2
    Size <- MCSize
    Batch <- MCBatch
    Limits = {2, 4}
    Disk = 7
    MinFrees = {2, 5}
    Foreign = {3}
    MaxEdits = 1
    MaxLogs = 3
    LogSizes = {1, 2}
    LogLimits = {0, 2, 3}
INVARIANTS
    StoreTypeOK
    OrphansAreWitnessed
    LogsAreCutToSize
PROPERTIES
    PruningIsJustified
    LimitIsReached
