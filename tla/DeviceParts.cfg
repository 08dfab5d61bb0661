SPECIFICATION Spec
CONSTANTS
    None = None
    Solo = {cli1}
    Clis = {cli1, cli2}
    Many = 2
    Few = 1
    Users = {u1}
    ForkNames = {x, y}
    First = x
    MaxRevs = 2
    MaxFaults = 1
    Absent = Absent
    MaxOps = 2
    MaxWork = 3
    MaxDaemons = 4
    MaxRuns = 3
    Headless = Headless
    Partial = Partial
    MaxTrees = 4
    NumSkills = 2
    Owned = {2}
    OwnerOf <- Owner
    SlugsOf <- SlugsFor
    UserNames <- EntriesOfUser
    Suffixes <- TwoAliases
    Roots = {codex, claude}
    User = User
SYMMETRY RootSymmetry
INVARIANTS IdentitySafety NewSkillSafety UpgradeSafety 
CHECK_DEADLOCK FALSE
