SPECIFICATION Spec
CONSTANTS
    Turns = {t1, t2, t3}
    Threads = {h1, h2, h3}
    None = none
    MaxReaps = 0
    MaxStops = 2
    Full = TRUE
    Serial = FALSE
SYMMETRY Symmetric
INVARIANTS OneTurn
PROPERTIES StopReachesStream
CHECK_DEADLOCK FALSE
