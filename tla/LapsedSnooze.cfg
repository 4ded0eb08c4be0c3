SPECIFICATION HSpec
CONSTANTS
    Items = {i1}
    Labels = {a, b}
    Deadlines = {}
    Absent = Absent
    NoDecision = NoDecision
    Unreadable = Unreadable
    MaxTime = 0
    MaxWrites = 1
INVARIANTS
    LapsedStaysLapsed
