SPECIFICATION BothSpec
CONSTANTS
    Ids = {1, 2}
    Works <- MCWorks
    TopLabels <- MCTopLabels
    Deadlines = {2}
    Absent = Absent
    NoDecision = NoDecision
    NoReply = NoReply
    DoneTTL = 1
    StaleAfter = 1
    MaxTime = 3
INVARIANTS
    TypeOK
    QueueIsWhatNeedsYou
    InOrderOfUrgency
    AdapterListIsServed
PROPERTIES
    ReadTwiceIsTheSame
    ListsAddUp
