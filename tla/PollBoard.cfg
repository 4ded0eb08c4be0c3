SPECIFICATION BothFairSpec
CONSTANTS
    Adapters = {github, herdr, calendar, notes}
    Keeps = {github}
    Zeroes = {herdr}
    Local = {notes}
    Ids = {x}
    Outages = TRUE
    Caps = TRUE
    Shutdowns = TRUE
    Requests = TRUE
    MaxEnabled = 1
    Findings = {f, g}
    NoFinding = none
    Cursors = {b, c}
    NoCursor = last
INVARIANTS
    Types
    StatusIsTheBoard
    WorkSaysWhatItMissesBetweenPolls
PROPERTIES
    KeepersLoseNothing
    Recovers
    PollEnds
