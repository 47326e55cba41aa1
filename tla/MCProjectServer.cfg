\* Two servers and a tool over two projects of one name, the first of them
\* registered; three edits, changes in the directories or crashes.
SPECIFICATION Spec
CONSTANTS
    s1 = s1
    s2 = s2
    t1 = t1
    p1 = p1
    p2 = p2
    Servers = {s1, s2}
    Tools = {t1}
    Paths = {p1, p2}
    Base <- MCBase
    AtFirst = {p1}
    None = None
    MaxEvents = 3
INVARIANTS
    TypeOK
    ClaimFindsServer
    ProjectsStand
PROPERTY
    AppendsAreTold
CHECK_DEADLOCK FALSE
