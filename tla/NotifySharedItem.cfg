SPECIFICATION Spec
CONSTANTS
    p1 = p1
    p2 = p2
    i1 = i1
    Items = {i1}
    Readings <- MCReadings
    Watched <- MCWatched
    Absent = Absent
    NoLabel = NoLabel
    Procs = {p1, p2}
    WrittenBy <- Shared
    Cooldown = 2
    QueueDepth = 6
    MaxTime = 3
    MaxWrites = 4
PROPERTIES
    RepeatsAreSpared
