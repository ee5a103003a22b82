SPECIFICATION FairSpec
CONSTANTS
    QueueSize = 2
    ProgressSize = 1
    MaxItems = 4
    MaxReports = 0
    MayStop = FALSE
    MayClose = TRUE
    MayFail = FALSE
PROPERTIES GraphEnds
CHECK_DEADLOCK FALSE
