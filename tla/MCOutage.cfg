SPECIFICATION Spec
CONSTANTS
    core = core
    dist = dist
    None = None
    Device = {core, dist}
    Interface = {}
    Source = {}
    Upstream <- Pair
    Owner <- NoPorts
    Sample <- PlainSamples
    IfSample = {}
    DownCycles = 1
    RuleCycles = 1
    FlapRule = FALSE
    FlapLimit = 1
    SitePct = 80
    MaxGen = 2
    Restarts = FALSE
    Operators = {}
INVARIANT OutageIsVisible
CHECK_DEADLOCK FALSE
