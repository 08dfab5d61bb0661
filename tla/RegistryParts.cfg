SPECIFICATION Spec
CONSTANTS
    None = None
    Users = {Ada, Bob, Cleo}
    Founder = Ada
    Sessions = {Ada, Bob, Cleo}
    UserOf <- OneSessionEach
    Sharing = {}
    Invites = {i1}
    Codes = {c1}
    Skills = {s1, s2}
    Slugs = {x, y, z}
    MaxGen = 3
    Maintainers = {Ada, Bob}
    Titles = {x, y}
    First = x
    MaxRevs = 4
    Clients = {k1, k2}
    MaxHeads = 2
    MaxProposals = 2
INVARIANTS TeamSafety NamesSafety TeamSkillSafety ProposalSafety
PROPERTY DraftsKept
CHECK_DEADLOCK FALSE
