SPECIFICATION Spec
CONSTANTS
    Threshold = 3
    KeepLast = 1
    MaxHistory = 3
    MaxTurns = 5
    MaxClears = 2
    MaxFails = 1
    ForeignKeys = TRUE
INVARIANTS ForgetsQuietClears HistoryBounded DeletedIsGone
PROPERTIES DroppedAreSummarised
CHECK_DEADLOCK FALSE
