SPECIFICATION FairSpec
CONSTANTS
    Items = {i1, i2}
    Readings = {r1, r2}
    Absent = Absent
    NoEntry = NoEntry
    Torn = Torn
    Procs = {p1, p2}
    Retention = 0
    PruneEvery = 1
    Crashes = FALSE
    Cuts = FALSE
    MaxTime = 4
INVARIANTS
    TypeOK
    HistoryHasNoGap
PROPERTIES
    QueueIsWritten
