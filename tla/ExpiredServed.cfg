SPECIFICATION ProxySpec
CONSTANTS
    Keys = {k1}
    NBuckets = 3
    Public <- MCPublic
    Workers = {w1}
    Syncer = Syncer
    Booter = Booter
    SyncOn = FALSE
    Ops = {"route"}
    MaxChanges = 0
    MaxErrors = 0
    MaxCrashes = 0
    Proxies <- MCProxies
    TTLSet = TRUE
    Members <- MCMembers
CHECK_DEADLOCK FALSE
INVARIANT ExpiredNotServed
