SPECIFICATION SurfaceSpec
CONSTANTS
    Keys = {x1, x2}
    Configs <- LimiterConfigs
    Unit = 3
    MostBurst = 2
    MostRefill = 2
    MaxBuckets = 1
    StaleTicks = 1
    NoRefillWait = 2
    LastTick = 4
    MaxTicks = 4
    NoBucket = NoBucket
    MaxChunks = 4
    MaxBuffer = 2
    Isolates = {x1, x2}
    Ages = {0, 2}
    MinTtl = 1
    RetryFloor = 1
    LastMoment = 2
    NoCopy = NoCopy
    Values = {"x", "y"}
    Default = "x"
    Descriptions = {"a"}
    Ids = {u1, u2}
    MaxSends = 2
    Absent = Absent
    Width = 2
    Entries <- SomeEntries
    ListCount = 2
    Ttl = 2
    LastHour = 2
    Nowhere = Nowhere
    Rows <- SomeRows
    MaxRows = 4
    IdleGap = 1
    RecoveryWindow = 1
    EscalationWindow = 1
    NoAddress = "none"
    Captures <- SomeCaptures
    Labels = {"browser-agent"}
    MaxCaptures = 4
    Boundaries = {1}
    RingCap = 3
    Cap = 3
    PageSize = 1
    MaxFrames = 3
    Browsers = {b1, b2}
    Flows = {x1, x2}
    Codes = {y1, y2}
    Grants = {g1, g2}
    Scopes = {"s"}
    Guest = "guest"
    None = None
    Tokens = {x1, x2}
    Users = {u1}
    SubjectOf <- Owner
    Calls = {q1}
    Admins = {y1, y2}
    Nobody = Nobody
    Processes = {x1, x2}
    Layers = {"l1", "l2"}
    Methods = {"a", "b"}
    Covers <- SomeCovers
    McpCalls = {r1}
    Unset = Unset
    MaxToolCalls = 3
    Rulesets <- SomeRulesets
    Visitors <- SomeVisitors
    Pending = Pending
    Writers = {x1, x2}
    Polls = {y1, y2}
    MaxStored = 2
    LastMs = 2
    PollLimit = 1
SYMMETRY SurfaceSymmetry
INVARIANTS
    SurfaceTypeOK
    LimiterHolds
    ResponseHolds
    NotOlderThanTtl
    ViewAgrees
    VerdictsHonest
    TelemetryHolds
    ControlHolds
    FlowYieldsOneGrant
    ScopesNeverWiden
    RevokedRefused
    DeletionsHold
    SchemaHolds
    OnionHolds
    CallsHold
    AdapterHolds
    StreamHolds
CHECK_DEADLOCK FALSE
