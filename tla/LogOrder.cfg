SPECIFICATION Spec
CONSTANTS
    Items = {i1}
    Readings = {r1, r2}
    Absent = Absent
    NoEntry = NoEntry
    Torn = Torn
    Procs = {p1, p2}
    Retention = 0
    PruneEvery = 1
    Crashes = TRUE
    Cuts = FALSE
    MaxTime = 2
INVARIANTS
    RestoredIsNewest
