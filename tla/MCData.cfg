SPECIFICATION DataSpec
CONSTANTS
    StoredAlert = {a1, a2}
    Gone = Gone
    Torn = Torn
    Overlap = FALSE
    MaxChanges = 6
    MaxStarts = 2
    Day = {1, 2, 3}
    OldDay = {1}
    EvMax = 2
    MaxEvents = 3
    MaxOpens = 2
    MaxHour = 2
    PerHour = 2
    HoursPerDay = 2
    RawHours = 0
    KeepHours = 0
    Ahead = 1
    Full = {n1, n2}
    Collector = {}
    MaxClock = 4
    MaxPasses = 3
    MaxFailovers = 1
    node1 = node1
    node2 = node2
    node3 = node3
    dev1 = dev1
    dev2 = dev2
    FullNode = {node1, node2}
    PollNode = {node3}
    Device = {dev1, dev2}
    SiteOf <- TwoSites
    Hash <- SomeHash
    Token = {t1, t2}
    Unpinned = Unpinned
    PinTo = {node3}
    MaxTroubles = 2
    Handler = {h1, h2}
    Packer = {k1}
    Rate = 1
    LastDay = 3
    MaxLines = 3
    MaxBuffer = 1
    KeepDays = 1
    MaxKills = 1
INVARIANTS
    DataTypeOK
    ArchivedIsJournaled
    EventsJournaledOnce
    
    JournalIsCopied
    
    StoredIsFound
PROPERTIES
    IsDurable
    OnlyTheFairShareMoves
CHECK_DEADLOCK FALSE
