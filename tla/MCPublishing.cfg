\* Two doors, two contents of each kind, one install target and one manifest,
\* three requests, two changes of the world and one crash.
SPECIFICATION PublishSpec
CONSTANTS
    d1 = d1
    d2 = d2
    m1 = m1
    m2 = m2
    o1 = o1
    o2 = o2
    e1 = e1
    e2 = e2
    Doors = {d1, d2}
    Designs = {m1, m2}
    Outputs = {o1, o2}
    Evidence = {e1, e2}
    Audiences = {"user"}
    MARKETS <- MCMarkets
    None = None
    Torn = Torn
    MaxRequests = 3
    MaxChanges = 2
    MaxCrashes = 1
SYMMETRY Symmetry
INVARIANTS
    PublishTypeOK
    VersionsKeepContent
    JournalIsTrue
CHECK_DEADLOCK FALSE
