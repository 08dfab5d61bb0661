SPECIFICATION FairSpec
CONSTANTS
    cli = cli
    service = service
    None = None
    Procs = {service}
    MaxOps = 7
    MaxRev = 2
    Names = {"first", "second"}
    Name <- OneName
    MaxSubs = 2
    MaxFaults = 2
    Slow = FALSE
    Edits = TRUE
INVARIANTS
    VisibleIsWhole
PROPERTIES
    SyncSettles
CHECK_DEADLOCK FALSE
