SPECIFICATION Spec
CONSTANTS
    Workers = {w1, w2}
    NoWorker = none
    NumReports = 2
    MaxAttempts = 2
    Budget <- Requests
INVARIANTS DoneHasIndex
PROPERTIES OnlyOwnerSettles
CHECK_DEADLOCK FALSE
