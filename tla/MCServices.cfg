SPECIFICATION ServicesSpec
CONSTANTS
    core = core
    None = None
    Device = {core}
    Interface = {}
    Source = {bgp}
    Upstream <- CoreAlone
    Owner <- NoPorts
    Sample <- AllSamples
    IfSample = {}
    DownCycles = 2
    RuleCycles = 2
    FlapRule = FALSE
    FlapLimit = 1
    SitePct = 80
    MaxGen = 1
    Restarts = FALSE
    Operators = {"ack", "resolve"}
    Client = {c1, c2}
    UserName = {n1, n2}
    MaxUsers = 1
    MaxFail = 1
    MaxUserIds = 2
    Role = {"viewer", "admin"}
    Worker = {w1, w2}
    IP = {i1, i2}
    Place = {s1}
    FreeCap = 1
    PaidCap = 2
    MaxSites = 1
    MaxDevices = 2
    MaxTasks = 4
    MaxTime = 2
    MaxConfigs = 2
    MaxSessions = 2
    Every = 2
    Soon = 1
    Keep = 2
    Run = {r1, r2}
    FailAfter = 2
    ProbeEvery = 1
    EventCap = 1
    MaxStops = 1
    p1 = p1
    Peer = {p1}
    Nbr = {n1, n2}
    WalkResult <- SomeTables
    BusCap = 2
    MaxWalks = 4
INVARIANTS
    RuleAlertHasCondition
    SessionsHaveUsers
    SoundUnlessRaced
    LatestReadable
    TriggerIsKept
    AlertFollowsProbe
    RoutingAlertsAgree
CHECK_DEADLOCK FALSE
