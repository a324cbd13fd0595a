SPECIFICATION MeasureSpec
CONSTANTS
    core = core
    port = port
    None = None
    Device = {core}
    Interface = {port}
    Source = {}
    Upstream <- CoreAlone
    Owner <- PortOfCore
    Sample <- PlainSamples
    IfSample <- AllIfSamples
    DownCycles = 1
    RuleCycles = 1
    FlapRule = TRUE
    FlapLimit = 1
    SitePct = 80
    MaxGen = 1
    Restarts = FALSE
    Operators = {}
    Rows = 3
    MaxRep = 1
    Retries = 1
    IsV3 = TRUE
    MaxBoots = 2
    MaxWire = 2
    MaxAlters = 1
    Wide = 16
    Narrow = 3
    HasHC = {TRUE, FALSE}
    MaxOctets = 4
    MaxUp = 4
    Switch = {s1, s2}
    Router = {r1}
    Mac = {m1, m2}
    Port = {1, 2}
    Trunk = {2}
    MaxMACs = 1
    MaxFlows = 2
    MaxMinute = 6
    SlotMinutes = 2
    DayMinutes = 4
    MinuteRing = 3
    FiveRing = 3
    ShortWindow = 3
    Unit = {1, 2, 3}
    Edge = {3}
    Sight <- SomeSights
    PortOf <- PortNames
    ManualLink <- DrawnLinks
    LockRole = {"access"}
    MaxTopo = 3
    Box = {1, 2, 3, 4}
    BoxSite <- TwoSites
    Rank <- SomeRanks
    NoRoot = 0
    MaxGraphs = 1
INVARIANTS
    MeasureTypeOK
    DownIsAlerted
    WalkMissesNoRow
    RateIsTraffic
    PlacedOnLeastBusyPort
    
    OnePeerPerPort
    
    ParentsLeadToRoot
CHECK_DEADLOCK FALSE
