SPECIFICATION FairForkSpec
CONSTANTS
    Names = {x}
    First = x
    MaxRevs = 2
    MaxFaults = 1
    Others = FALSE
    Service = FALSE
    None = None
PROPERTY PromotionEnds
CHECK_DEADLOCK FALSE
