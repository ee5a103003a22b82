SPECIFICATION FairSpec
CONSTANTS
    Workers = {w1, w2}
    NoWorker = none
    NumReports = 1
    MaxAttempts = 2
    Budget <- Hardship
PROPERTIES EveryReportSettles
CHECK_DEADLOCK FALSE
