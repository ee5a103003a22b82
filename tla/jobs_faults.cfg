SPECIFICATION Spec
CONSTANTS
    Workers = {w1, w2}
    NoWorker = none
    NumReports = 1
    MaxAttempts = 2
    Budget <- Everything
INVARIANTS LiveRowsKeepDump OneSupervisedMat
PROPERTIES KeepsPromise
CHECK_DEADLOCK FALSE
