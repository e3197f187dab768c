SPECIFICATION Spec
CONSTANTS
    Parts = {"race", "history", "graph", "impact", "racks", "places", "refresh", "timeline", "sources", "quality", "services", "access",
             "puller", "feed", "archive", "snapshots"}
    AssetIds = {a1, i1, i2}
    Site = {i1, i2}
    Callers = {p1, p2}
    Now = Now
    ImpactMaxDepthCap = 2
    GraphLimit = 1
    MaxRows = 3
    MaxTime = 2
    MaxQueryErrors = 1
    Assessments = {i1, i2}
    Assets = {k1}
    Clients = {p1, p2}
    Tiers = {"critical", "normal", "minor"}
    MaxErrors = 1
    MaxHandEdits = 1
    Racks = {i1, i2}
    NoRack = NoRack
    Equipment = {k1}
    Mounters = {p1, p2}
    Sides = {"front"}
    FullHeight = 2
    MaxMounts = 2
    MaxLapses = 1
    MaxManual = 1
    LocationIds = {a1, i1, i2}
    NoParent = NoParent
    Labels = {"a", "b"}
    Slugs <- SomeSlugs
    Levels = {"region"}
    RackNames = {k1}
    Surveyors = {k1}
    Devices = {k1}
    NoDate = NoDate
    Specs <- SomeSpecs
    Scanners = {p1, p2}
    WarrantyHorizonDays = 90
    EOLHorizonDays = 180
    FirstDay = 100
    LastDay = 101
    MaxScans = 2
    MaxSpecEdits = 1
    Responders = {p1, p2}
    NoTime = NoTime
    MaxMoves = 3
    Severities = {"critical", "warning"}
    SourceIds = {i1, i2}
    SourceNames = {k1}
    Never = Never
    Intervals = {1, 2}
    LastTick = 4
    MaxBeatLosses = 3
    Subjects = {k1}
    Profiles <- SomeProfiles
    Rules <- SomeRules
    FlagIds = {k1}
    ScanRuns = {p1, p2}
    DayLength = 2
    LowQualityLookbackDays = 2
    FinalTick = 3
    MaxProfileEdits = 1
    MaxQualityScans = 2
    ServiceIds = {i1, i2}
    Codes = {k1}
    ServiceNames = {k2}
    Carriers = {k1}
    Attachers = {p1, p2}
    Blank = Blank
    Members = {k1}
    Roles = {k1, k2}
    SystemRoles = {k2}
    Absent = Absent
    Grants <- SomeGrants
    resourceMap <- SomeResources
    publicPaths = {"login"}
    Paths = {"assets", "login", "unknown"}
    Methods = {"GET"}
    Calls = {p1, p2}
    Assigners = {k1}
    permsCacheTTL = 1
    MaxDuration = 1
    LastMinute = 3
    MaxRoleEdits = 1
    MaxOutages = 1
    AdapterIds = {k1}
    Setups <- SomeSetups
    Pullers = {p1, p2}
    adapterDisableThreshold = 3
    MaxAdapterEdits = 1
    MaxSlips = 1
    Browsers = {k1, k2}
    FeedTenants = {"t1", "t2"}
    TenantOf <- SomeTenants
    BroadcastCap = 1
    SendCap = 1
    Malformed = {3}
    MaxMessages = 4
    Runs = {p1, p2, k1}
    MonthRows = {k1}
    LateRows = {k2}
    MaxAttaches = 2
    SnapshotAssets = {i1, i2}
    Editors = {p1, p2}
    Columns = {"status", "owner_team"}
    Values = {1, 2}
    CoveredUntil = 3
    LastMoment = 4
    MaxReads = 1
INVARIANTS
    GraphIsSound LevelFollowsTiers PlacementsAreSound IncidentTellsItsPast HeartbeatsAreHeard
    ScoresAreFair DecisionsAreRecent AdapterCutOffIsSound FeedIsOrderly NothingIsLost
PROPERTIES
    HistoryIsStable LocationTreeIsSound RecommendationsAreSound MembershipSurvives SnapshotsTellThePast
SYMMETRY Symmetry
CHECK_DEADLOCK FALSE
