SPECIFICATION SlowSpec
CONSTANTS
    QueueSize = 2
    ProgressSize = 2
    MaxItems = 5
    MaxReports = 3
    MayStop = TRUE
    MayClose = TRUE
    MayFail = TRUE
INVARIANTS AnswerIsWhole
PROPERTIES EndIsServed
CHECK_DEADLOCK FALSE
