SPECIFICATION ProxySpec
CONSTANTS
    Keys = {k1}
    NBuckets = 3
    Public <- MCPublic
    Workers = {w1}
    Syncer = Syncer
    Booter = Booter
    SyncOn = FALSE
    Ops = {"route", "relocate"}
    MaxChanges = 1
    MaxErrors = 1
    MaxCrashes = 1
    Proxies <- MCProxies
    TTLSet = TRUE
    Members <- MCMembers
CHECK_DEADLOCK FALSE
INVARIANTS VirtualServesFresh SteadyWins RelocateDurable ServedExists
