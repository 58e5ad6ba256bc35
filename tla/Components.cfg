SPECIFICATION Spec
CONSTANTS
    Clients = {c1}
    Slots = {r1, r2}
    Blank = Blank
    k1 = k1
    k2 = k2
    Keys <- MCKeys
    KeyLists <- MCKeyLists
    Rate = 1
    Burst = 2
    Idle = 3
    Gap = 1
    Callers = {f1}
    EventTypes = {e1, e2}
    MaxAttempts = 2
    MaxSubscribers = 2
    Catalogues <- MCCatalogues
    Rules <- MCRules
    NoGroup = NoGroup
    NoPlan = NoPlan
    pkg = pkg
    PolicyCallers = {p1, p2}
    Engines <- MCEngines
    Artifacts <- MCArtifacts
    NotNormalized = NotNormalized
    AnyVersion = AnyVersion
    ScanError = ScanError
    MaxClock = 2
    spdx = spdx
    gpl = gpl
    lib = lib
    other = other
    Environments <- MCEnvironments
    NoName = NoName
    Unset = Unset
    BadTTL = BadTTL
    NoConfig = NoConfig
    LoadError = LoadError
    bktA = bktA
    bktB = bktB
    virt = virt
    Scrapers = {1, 2}
    MaxScrapes = 2
    Files = {1, 2}
    FileEntries <- MCFileEntries
    Unlisted = Unlisted
    NoTime = NoTime
    NoBucketName = NoBucketName
    MaxListings = 1
    vol1 = vol1
    vol2 = vol2
CHECK_DEADLOCK FALSE
INVARIANTS GatewayTypeOK WithinBudget Guarded
    WebhookTypeOK ReportComplete CancelBounded
    PlanExact BudgetMet
    AuditTruthful BinaryLikeScan
    MembersServe RanksAsConfigured TTLEffective PrivateStays
    ScrapeTruthful
PROPERTIES IdleEvicted FireReturns
