SPECIFICATION Spec
CONSTANTS
    Node = {n1, n2, n3}
    Nil = Nil
    MaxCampaigns = 2
    MaxBeats = 1
    MaxRestarts = 0
    CrashAnytime = FALSE
INVARIANT FollowingProcessIsStandby
SYMMETRY Symmetry
CHECK_DEADLOCK FALSE
