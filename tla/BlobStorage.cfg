SPECIFICATION Spec
CONSTANTS
    r1 = r1
    r2 = r2
    r3 = r3
    r4 = r4
    b1 = b1
    b2 = b2
    b3 = b3
    q1 = q1
    q2 = q2
    n1 = n1
    n2 = n2
    s1 = s1
    s2 = s2
    None = None
    Namespaces = {n1, n2}
    Teams = {n2}
    Skills = {s1, s2}
    Revs = {r1, r2, r3}
    Blobs = {b1, b2}
    BlobsOf <- MCBlobsOf
    Requests = {q1, q2}
    Quota = 2
SYMMETRY Symmetry
INVARIANTS
    TypeOK
    RefCountsExact
    ReferencesHaveRows
    UnreachableIsCandidate
PROPERTIES
    CollectedOnlyWhenUnreachable
CHECK_DEADLOCK FALSE
