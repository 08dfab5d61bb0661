SPECIFICATION Spec
CONSTANTS
    o1 = o1
    o2 = o2
    o3 = o3
    c1 = c1
    c2 = c2
    h1 = h1
    h2 = h2
    u1 = u1
    u2 = u2
    None = None
    Base = base
    Ops = {o1, o2, o3}
    ConflictIds = {c1, c2}
    Foreign = {}
    ForeignBefore <- MCForeignBefore
    Handlers = {h1, h2}
    MaxGen = 4
SYMMETRY Symmetry
INVARIANTS
    TypeOK
    AtMostOneActiveConflict
    ConflictHistoryKept
    DivergedSavesSurvive
    OneOutcomePerOperation
PROPERTIES
    HeadNeverOverwritten
    GenerationNeverRepeats
    ImplementsSharedHead
CHECK_DEADLOCK FALSE
