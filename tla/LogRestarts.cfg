SPECIFICATION Spec
CONSTANTS
    Items = {i1, i2}
    Readings = {r1, r2}
    Absent = Absent
    NoEntry = NoEntry
    Torn = Torn
    Procs = {p1}
    Retention = 2
    PruneEvery = 1
    Crashes = TRUE
    Cuts = TRUE
    MaxTime = 4
INVARIANTS
    LogTellsTheBoard
    RestoredIsNewest
PROPERTIES
    CutCostsOneWrite
