SPECIFICATION Spec
CONSTANTS
    Puts = {p1, p2}
    Completes = {c1}
    None = none
    NumChunks = 1
    NumBlocks = 2
    Overlap = TRUE
    Crashes = 0
INVARIANTS PartsAreWhole
CHECK_DEADLOCK FALSE
