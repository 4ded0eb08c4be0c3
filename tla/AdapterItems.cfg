SPECIFICATION AllSpec
CONSTANTS
    Adapters <- MCAdapters
    Dated <- MCDated
    AdapterIds <- MCAdapterIds
    Names <- PlainNames
    EventIds <- MCAdapterIds
    Readings <- MCReadings
    Finished <- MCFinished
    Absent = Absent
    EventTTL = 1
    StaleAfter = 1
    MaxTime = 3
    PullNumbers <- MCPullNumbers
    GitHubPage = 2
    Limit = 3
    MaxMoves = 2
    Channels = {"c"}
    Directs <- MCDirects
    Closable = {"e"}
    Lookback = 2
    SearchCount = 1
    SearchMaxPages = 2
    ListRead = 2
    MaxConversations = 1
    HistoryLimit = 2
    MaxPosts = 3
    Uids = {"standup", "review"}
    FirstStart <- MCFirstStart
    Every <- MCEvery
    Length <- MCLength
    FeedOf <- MCFeedOf
    LookBack = 2
    Horizon = 4
    Lead = 2
    Interval = 2
    MaxClock = 5
    MaxCalendarEdits = 2
    Off = Off
    Cancelled = Cancelled
    OutlinePage = 2
    MaxPages = 2
    MaxItems = 3
    MaxSent = 5
    Sessions = {"s", "t"}
    Advisors = {1, 2}
    SessionOf <- MCSessionOf
    AdvisorCost = 2
    LookupsPerNote = 1
    MinLookups = 1
    MaxMessages = 2
    Dirs <- MCDirs
    FileNames = {"a", "b"}
    NoFile = NoFile
    MaxFileEdits = 2
    Requests = {"q", "r"}
    Workspaces = {"v", "w"}
    Tabs = {"s", "t", "u"}
    Panes = {"a", "c"}
    NoPlace = "gone"
    TabIn <- MCTabIn
    PaneIn <- MCPaneIn
    Shells = {"c"}
    MaxTouches = 1
INVARIANTS
    Types
    EventItemsServedWhileLive
    NewsIsNotStale
    RankSaysWhoseTurn
    AnnouncedInTime
    FocusIsWhatSomeoneAskedFor
PROPERTIES
    NothingFallsBetweenSearches
    BoardIsWhatWaits
    BoardIsThePlan
    UnreadIsShown
    RunawayCostIsTold
    ScanIsOfWhatWasThere
