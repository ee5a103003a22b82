CONSTANTS
    Analysed = {dump1, dump2}
    Pages = {page}
    Workbenches = {workbench}
    LeakTools = {leaks}
    OomTools = {oom}
    MaxTasks = 1
    MaxTries = 2
    MaxHeapFaults = 2
    Nobody = nobody
    t1 = t1
    t2 = t2
    Turns = {t1, t2}
    Histories <- MCHistories
    SystemSize = 1
    Budget = 3
    KeepLastTurns = 1
    MAX_HISTORY_MESSAGES = 3
    MaxIterations <- MCIterations
    MaxCalls = 2
    MaxWorkers = 1
    Uploads = {u1, u2}
    Removals = {d1, d2}
    MaxStoreFaults = 1
    KeepsForeignKeys = TRUE
    Saves = {s1, s2}
    Changes = {k1}
    Chats = {c1, c2}
    Overlap = FALSE
    NoAgent = noagent
    fact1 = fact1
    fact2 = fact2
    Facts = {fact1, fact2}
    FactSize <- MCFactSize
    FactBudget = 4
    Adders = {a1, a2}
    MaxDays = 1
    MaxReads = 1
    Summary = summary
    NoFact = nofact
SPECIFICATION BackendSpec
INVARIANT AllClearIsTrue
CHECK_DEADLOCK FALSE
