SPECIFICATION Spec
CONSTANTS
    cli = cli
    service = service
    None = None
    Procs = {cli, service}
    MaxOps = 3
    MaxRev = 2
    Names = {"first", "second"}
    Name <- SecondRenames
    MaxSubs = 0
    MaxFaults = 0
    Slow = FALSE
    Edits = TRUE
SYMMETRY Symmetry
INVARIANTS
    TypeOK
PROPERTIES
    VisibleEditKept
CHECK_DEADLOCK FALSE
