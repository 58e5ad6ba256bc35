SPECIFICATION MCSpec
CONSTANTS
    Keys = {1, 2}
    Bucket = {1, 2}
    NoBucket = NoBucket
    Priority <- MCPriority
    Target = 1
    Unstamped = {2}
    MaxTime = 2
    MaxChanges = 1
    MaxErrors = 1
    MaxJobs = 2
CHECK_DEADLOCK FALSE
INVARIANTS SkipsUnchanged
