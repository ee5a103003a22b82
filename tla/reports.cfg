CONSTANTS
    Diagnoses <- MCDiagnoses
    Uploads <- MCUploads
    MaxLogs = 1
    SampleLimit = 3
    TopLimit = 2
    Logs8 <- MCLogs8
    LookAhead = 4
    Window = 3
    Logs9 <- MCLogs9
    Dumps <- MCDumps
    JsonDumps <- MCJsonDumps
    Within <- MCWithin
    Ranges <- MCRanges
    ThreadCountWarn = 3
    ThreadCountCrit = 9
    PoolBloatMin = 2
    ScanFrames = 2
    HotLimit = 1
SPECIFICATION ReportsSpec
INVARIANTS
    ReportsTypeOK
    VerdictIsBacked
    ManualCountsOnlyMixed
    NoteIsOwnWhenAlone
    ChartsShowAll
    Log8IsReported
    Log9IsReported
    DumpIsReported
    DumpFiguresAgree
CHECK_DEADLOCK FALSE
