SPECIFICATION Spec
CONSTANTS
    Turns = {t1, t2, t3, t4}
    Threads = {h1, h2, h3}
    None = none
    MaxReaps = 2
    MaxStops = 0
    Full = FALSE
    Serial = TRUE
SYMMETRY Symmetric
INVARIANTS OverlapIsTheft
CHECK_DEADLOCK FALSE
