SPECIFICATION Spec
CONSTANTS
    Workers = {w1, w2}
    NoWorker = none
    NumReports = 1
    MaxAttempts = 3
    Budget <- StallCancel
PROPERTIES WatchdogSparesLiveMat
CHECK_DEADLOCK FALSE
