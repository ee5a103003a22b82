SPECIFICATION Spec
CONSTANTS
    Workers = {w1, w2}
    NoWorker = none
    NumReports = 1
    MaxAttempts = 3
    Budget <- Crash1
PROPERTIES OnlyStaleIsReset
CHECK_DEADLOCK FALSE
