\* Three calls and the end of the application.
SPECIFICATION Spec
CONSTANTS
    Names = {"feed", "github", "imap", "on mail", "on feed", "bad", "send", "list", "open"}
    Integrations <- MCIntegrations
    Subscriptions = {"on mail", "on feed", "bad"}
    Unusable = {"bad"}
    HostNames = {"github", "open"}
    Host = Host
    None = None
    Order <- MCOrder
    Staged <- MCStaged
    MetaNames = {"Mail", "Old"}
    MetaName <- MCMetaName
    Outdated = {"old"}
    Twins = {}
    Wanted = {"mail", "mixed"}
    MaxCalls = 2
INVARIANTS
    TypeOK
    Accounted
    StatusTellsTruth
PROPERTIES
    CapabilitiesAsPromised
    HooksPaired
    CallsEnd
