SPECIFICATION Spec
CONSTANTS
    Turns = {t1, t2, t3}
    Threads = {h1, h2, h3}
    None = none
    MaxReaps = 1
    MaxStops = 0
    Full = TRUE
    Serial = FALSE
PROPERTIES LiveNeverStolen
CHECK_DEADLOCK FALSE
