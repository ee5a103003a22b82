SPECIFICATION Spec
CONSTANTS
    Puts = {p1, p2, p3, p4}
    Completes = {c1, c2}
    None = none
    NumChunks = 2
    NumBlocks = 2
    Overlap = FALSE
    Crashes = 1
SYMMETRY Symmetric
INVARIANTS PartsAreWhole ReportIsWhole NoOrphanedDump
PROPERTIES CompletesOnce
CHECK_DEADLOCK FALSE
