SPECIFICATION FairSpec
CONSTANTS
    v1 = v1
    v2 = v2
    cli = cli
    service = service
    None = None
    Resources = {1, 2}
    Revs = {v1, v2}
    Procs = {service}
    TeamRevs <- MCTeam
    PackRevs <- MCPack
    DirectRevs <- MCDirect
    Quarantinable = {1, 2}
    MaxChanges = 4
    MaxCrashes = 1
INVARIANTS
    AppliedRowsVisible
PROPERTIES
    ConflictKeepsLastGood
    DeviceSettles
CHECK_DEADLOCK FALSE
