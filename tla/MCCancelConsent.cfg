SPECIFICATION Spec
CONSTANTS
    s1 = s1
    s2 = s2
    c1 = c1
    c2 = c2
    a1 = a1
    m1 = m1
    m2 = m2
    None = None
    Messages = {m1, m2}
    Norm <- MCNorm
    Rules = {"once"}
    Period <- MCPeriod
    Actions = {a1}
    Keys = {}
    Owners = {s1, s2}
    DueTimes = {0}
    Lease = 1
    BatchSize = 1
    MaxId = 1
    MaxClock = 1
    Clients = {c1, c2}
    Host <- MCNoHost
    Mortal = {}
    MaxTrouble = 0
    LastTrouble = 0
    MaxRequests = 2
PROPERTIES
    ConfirmedTextOnly
