SPECIFICATION Spec
CONSTANTS
    Keys = {k1}
    NBuckets = 2
    Public <- MCPublic
    Workers = {w1, w2}
    Syncer = Syncer
    Booter = Booter
    SyncOn = FALSE
    Ops = {"relocate"}
    MaxChanges = 1
    MaxErrors = 0
    MaxCrashes = 0
CHECK_DEADLOCK FALSE
INVARIANT RelocateDurable
