SPECIFICATION NotifySpec
CONSTANTS
    Alert = {a1}
    Severity <- TwoRanks
    Config <- Everything
    ChanCap = 4
    MaxOpens = 2
PROPERTY
    ResolutionNotWithheld
CHECK_DEADLOCK FALSE
