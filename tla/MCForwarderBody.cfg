SPECIFICATION FairSpec
CONSTANTS
    Max = 5
    BodyLimit = 3
    MaxKept = 1
    MaxCheap = 4
PROPERTY
    AllDelivered
CHECK_DEADLOCK FALSE
