SPECIFICATION Spec
CONSTANTS
    Turns = {t1, t2, t3}
    Threads = {h1, h2, h3}
    None = none
    MaxReaps = 0
    MaxStops = 0
    Full = FALSE
    Serial = TRUE
INVARIANTS LostIsReclaimable
CHECK_DEADLOCK FALSE
