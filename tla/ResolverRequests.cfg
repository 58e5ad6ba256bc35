SPECIFICATION Spec
CONSTANTS
    Keys = {k1}
    NBuckets = 2
    Public <- MCPublic
    Workers = {w1, w2}
    Syncer = Syncer
    Booter = Booter
    SyncOn = FALSE
    Ops = {"route", "update", "relocate"}
    MaxChanges = 2
    MaxErrors = 0
    MaxCrashes = 0
SYMMETRY MCSymmetry
INVARIANT CalmAnswer
PROPERTY RouteRule
