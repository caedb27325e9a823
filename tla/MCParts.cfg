SPECIFICATION PartsSpec
CONSTANTS
    o1 = o1
    o2 = o2
    k1 = k1
    a1 = a1
    None = None
    Messages <- MCMessages
    Norm <- MCNorm
    Rules <- MCRules
    Period <- MCPeriod
    Actions = {a1}
    Keys = {k1}
    Owners = {o1, o2}
    DueTimes <- MCDueTimes
    Lease = 1
    BatchSize = 1
    MaxId = 2
    MaxClock = 2
    Raises = Raises
    Zones <- MCZones
    RuleNames = {"daily", "weekly", "weekdays"}
    Walls = {0, 1, 2, 3, 12, 23}
    Starts <- MCStarts
    Delays = {0, 1, 25}
    Horizon <- MCHorizon
    GapWindow = 3
    CallIds = {"a", "b"}
    MaxMessages = 4
    Room = 8
    MaxActions = 2
    MaxCommand = 4
    MaxResult = 4
    MaxResults = 4
    MinResult = 1
    Skipped = 1
    Answers <- MCAnswers
    Lengths = {1, 4}
    MaxTurns = 4
    NoId = NoId
    Connections = 2
    AutoLoad = TRUE
    Unplugs = TRUE
SYMMETRY OwnerSymmetry
INVARIANTS
    ClaimConsistent
    ExchangesForgotten
    RequestsComplete
    QuietAfterClose
PROPERTIES
    StartedIsFrozen
    LeaseRespected
    NoResurrection
    OccurrencesAsIntended
    ClosedForGood
CHECK_DEADLOCK FALSE
