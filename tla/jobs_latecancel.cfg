SPECIFICATION Spec
CONSTANTS
    Workers = {w1, w2}
    NoWorker = none
    NumReports = 1
    MaxAttempts = 2
    Budget <- Cancel1
PROPERTIES TerminalIsFinal
CHECK_DEADLOCK FALSE
