SPECIFICATION Spec
CONSTANTS
    Node = {a, b, c}
    Nil = Nil
    MaxCampaigns = 4
    MaxBeats = 0
    MaxRestarts = 1
    CrashAnytime = TRUE
SYMMETRY Symmetry
CONSTRAINT FewRequests
INVARIANT ElectionSafety
CHECK_DEADLOCK FALSE
