SPECIFICATION FairSpec
CONSTANTS
    d1 = d1
    d2 = d2
    a1 = a1
    a2 = a2
    None = None
    Skills = {1, 2}
    Packs = {1}
    Drains = {d1}
    Authors = {a1}
    MaxEvents = 2
    MaxEdits = 2
    MaxAborts = 1
INVARIANTS
    IntentMatchesRevision
    NoReleaseLost
    PublicPackShowsReleases
PROPERTIES
    FollowersNeverRegress
    ReleasesLand
CHECK_DEADLOCK FALSE
