SPECIFICATION HFairSpec
CONSTANTS
    Items = {i1}
    Labels = {a, b}
    Deadlines = {1}
    Absent = Absent
    NoDecision = NoDecision
    Unreadable = Unreadable
    MaxTime = 2
    MaxWrites = 2
INVARIANTS
    AnsweredDecisionStands
PROPERTIES
    ImplementsRegister
    EveryRequestAnswered
