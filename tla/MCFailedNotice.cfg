SPECIFICATION FairSpec
CONSTANTS
    s1 = s1
    s2 = s2
    c1 = c1
    c2 = c2
    a1 = a1
    m1 = m1
    m2 = m2
    None = None
    Messages = {m1}
    Norm <- MCNorm
    Rules = {"daily"}
    Period <- MCPeriod
    Actions = {a1}
    Keys = {}
    Owners = {s1, s2}
    DueTimes = {0}
    Lease = 1
    BatchSize = 1
    MaxId = 1
    MaxClock = 1
    Clients = {c1}
    Host <- MCNoHost
    Mortal = {}
    MaxTrouble = 1
    LastTrouble = 0
    MaxRequests = 0
PROPERTIES
    FailedNoticeIsRetried
