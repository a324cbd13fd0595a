SPECIFICATION EngineSpec
CONSTANTS
    core = core
    dist = dist
    None = None
    Device = {core}
    Interface = {}
    Source = {}
    Upstream <- CoreAlone
    Owner <- NoPorts
    Sample <- PlainSamples
    IfSample = {}
    DownCycles = 2
    RuleCycles = 2
    FlapRule = TRUE
    FlapLimit = 1
    SitePct = 80
    MaxGen = 2
    Restarts = TRUE
    Operators = {"ack", "resolve"}
INVARIANT UpHasNoDownAlert
PROPERTY PairAnsweringEndsOutage
CHECK_DEADLOCK FALSE
