SPECIFICATION BoundedSpec
CONSTANTS
    s1 = s1
    s2 = s2
    c1 = c1
    c2 = c2
    a1 = a1
    m1 = m1
    m2 = m2
    None = None
    Messages = {m1, m2}
    Norm <- MCNorm
    Rules = {"once", "daily"}
    Period <- MCPeriod
    Actions = {a1}
    Keys = {}
    Owners = {s1, s2}
    DueTimes = {0}
    Lease = 1
    BatchSize = 1
    MaxId = 2
    MaxClock = 2
    Clients = {c1}
    Host <- MCHost
    Mortal = {s1}
    MaxTrouble = 1
    LastTrouble = 1
    MaxRequests = 2
INVARIANTS
    TypeOK
    NoticeIsCurrent
    ShownAtMostOnce
    WakeNotLost
PROPERTIES
    DeliversAsPromised
    DueIsDelivered
    StopEndsLoop
