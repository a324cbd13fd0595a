SPECIFICATION Spec
CONSTANTS
    Node = {a, b, c}
    Nil = Nil
    MaxCampaigns = 2
    MaxBeats = 1
    MaxRestarts = 1
    CrashAnytime = FALSE
SYMMETRY Symmetry
INVARIANTS ElectionSafety StaleLeaderCannotRenew RolePersisted
CHECK_DEADLOCK FALSE
