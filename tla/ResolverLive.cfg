SPECIFICATION FairSpec
CONSTANTS
    Keys = {k1}
    NBuckets = 2
    Public <- MCPublic
    Workers = {w1}
    Syncer = Syncer
    Booter = Booter
    SyncOn = TRUE
    Ops = {"route", "update", "relocate"}
    MaxChanges = 1
    MaxErrors = 1
    MaxCrashes = 0
PROPERTIES Discovered ManifestsConverge DuplicatesConverge
