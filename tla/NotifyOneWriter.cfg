SPECIFICATION FairSpec
CONSTANTS
    p1 = p1
    p2 = p2
    i1 = i1
    Items = {i1}
    Readings <- AllReadings
    Watched <- MCWatched
    Absent = Absent
    NoLabel = NoLabel
    Procs = {p1}
    WrittenBy <- Alone
    Cooldown = 2
    QueueDepth = 1
    MaxTime = 4
    MaxWrites = 5
INVARIANTS
    TypeOK
    NewsIsTold
PROPERTIES
    RepeatsAreSpared
    ObserverReturns
