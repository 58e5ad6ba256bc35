SPECIFICATION Spec
CONSTANTS
    Keys = {k1}
    NBuckets = 2
    Public <- MCPublic
    Workers = {w1}
    Syncer = Syncer
    Booter = Booter
    SyncOn = TRUE
    Ops = {"route", "type", "update", "relocate"}
    MaxChanges = 1
    MaxErrors = 1
    MaxCrashes = 1
INVARIANTS TypeOK SteadyWins CalmAnswer
