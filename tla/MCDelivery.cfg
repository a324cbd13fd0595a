SPECIFICATION DeliverySpec
CONSTANTS
    Max = 5
    BodyLimit = 20
    MaxKept = 2
    MaxCheap = 4
    Alert = {a1, a2}
    Severity <- TwoRanks
    Config <- AnySettings
    ChanCap = 2
    MaxOpens = 2
    Sink = {k1, k2}
    MaxAlerts = 4
    InCap = 1
    OutCap = 1
    QueueCap = 1
    BatchSize = 2
    Target = {d1, d2}
    Workers = 1
    PollEvery = 1
    InvEvery = 2
    SampleCap = 1
    InventoryAll = TRUE
    Caller = {g1, g2, g3}
INVARIANTS
    
    HistoryInOrder
    ResolutionFollowsOpen
    OneVisitAtATime
    ExportedOnceInOrder
PROPERTIES
    AllDelivered
    CriticalIsSent
    NeverHeldUp
    EveryDeviceVisited
    CallsReturn
CHECK_DEADLOCK FALSE
