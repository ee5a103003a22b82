SPECIFICATION Spec
CONSTANTS
    Workers = {w1, w2}
    NoWorker = none
    NumReports = 1
    MaxAttempts = 3
    Budget <- Stall1
PROPERTIES OnlyOwnerCompletes
CHECK_DEADLOCK FALSE
