\* A run and one left unfinished by a process that died, two repairs, two
\* gradings, two verdicts and one crash.
SPECIFICATION Spec
CONSTANTS
    r1 = r1
    r2 = r2
    p1 = p1
    p2 = p2
    g1 = g1
    g2 = g2
    pass = pass
    fail = fail
    Runs = {r1, r2}
    OldRuns = {r2}
    Repairs = {p1, p2}
    Graders = {g1, g2}
    Verdicts = {pass, fail}
    None = None
    MaxCrashes = 1
SYMMETRY Symmetry
INVARIANTS
    TypeOK
    RecordsAreTrue
PROPERTY
    FinalizedForGood
CHECK_DEADLOCK FALSE
