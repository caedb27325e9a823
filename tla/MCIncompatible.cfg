\* The plug-in for another API version is enabled from an earlier session.
SPECIFICATION Spec
CONSTANTS
    Names = {"feed", "github", "imap", "on mail", "on feed", "bad", "send", "list", "open"}
    Integrations <- MCIntegrations
    Subscriptions = {"on mail", "on feed", "bad"}
    Unusable = {"bad"}
    HostNames = {"github", "open"}
    Host = Host
    None = None
    Order <- MCOrder
    Staged <- MCStaged
    MetaNames = {"Mail", "Old"}
    MetaName <- MCMetaName
    Outdated = {"old"}
    Twins = {}
    Wanted = {"old"}
    MaxCalls = 2
INVARIANT
    IncompatibleStaysOut
