SPECIFICATION HSpec
CONSTANTS
    Items = {i1, i2}
    Labels = {a}
    Deadlines = {}
    Absent = Absent
    NoDecision = NoDecision
    Unreadable = Unreadable
    MaxTime = 0
    MaxWrites = 3
SYMMETRY Symmetry
INVARIANTS
    TypeOK
    WriteInv
    QuiescentFileIsNewest
