SPECIFICATION HostSpec
CONSTANTS
    w1 = w1
    w2 = w2
    h1 = h1
    c1 = c1
    c2 = c2
    c3 = c3
    MaxPages = 3
    Labels = {w1, w2}
    MaxTabs = 2
    MaxSnapshots = 2
    MaxDocuments = 2
    MaxMoves = 1
    MaxSessions = 2
    Nothing = Nothing
    MaxOpen = 2
    MaxMade = 3
    Clients = {c1, c2, c3}
    MaxClients = 2
    Hosts = {h1}
    Addresses = {1, 2, 3}
    Public = {1, 2}
    MaxRows = 2
    RecordTexts = {w1, w2}
    NoRecord = NoRecord
    MaxClicks = 2
    MaxChanges <- MCMaxChanges
    Drafts = {"d"}
    Events = {"e"}
    Titles = {w1, w2}
    Times = {1, 2}
    Absent = Absent
    Setups <- MCSetups
    MaxRemote = 2
    MaxOthers = 1
    MaxLinks = 3
    Spellings = {w1, w2}
    Rows = {"drink"}
    RowOf <- MCRowOf
    Categories = {"facts", "aliases"}
    Category <- MCCategory
    MaxRequests = 3
    MaxStarts = 2
    Applications = {"editor", "viewer"}
    Processes = {"p1", "p2", "p3"}
    RunsAs <- MCRunsAs
    ImageName <- MCImageName
    Handles = {"x1", "x2"}
    Captions = {w1, w2}
    NoWindow = NoWindow
    MaxDesk = 2
    MaxTurmoil = 1
SYMMETRY HostSymmetry
INVARIANTS
    HostTypeOK
    PagesAccounted
    NothingOrphaned
    OnePinPerHost
    RepeatsWereAnnounced
    ChangesWereConfirmed
    MemoriesAsAnswered
    DesktopAsAsked
PROPERTIES
    ActsOnWhatWasShown
    PagesTellAndDo
    CallsAsPromised
CHECK_DEADLOCK FALSE
