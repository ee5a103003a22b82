SPECIFICATION Spec
CONSTANTS
    Workers = {w1}
    NoWorker = none
    NumReports = 1
    MaxAttempts = 2
    Budget <- Crashes
PROPERTIES RetriedBelowLimit
CHECK_DEADLOCK FALSE
