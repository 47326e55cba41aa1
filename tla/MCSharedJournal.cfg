\* Two clones, two doors in one of them and one in the other, four lines, two
\* days; a todo is swept the day after it is done. Of the statuses asked for one
\* is terminal and one is not: the fold does not tell the others apart.
SPECIFICATION CloneSpec
CONSTANTS
    a = a
    b = b
    d1 = d1
    d2 = d2
    d3 = d3
    Clones = {a, b}
    CloneDoors = {d1, d2, d3}
    At <- MCAt
    SweepDays = 1
    Goals = {"in-progress", "done"}
    MaxLines = 4
    MaxDay = 1
SYMMETRY Symmetry
INVARIANTS
    CloneTypeOK
    TodosStand
PROPERTY
    HistoriesGrow
CHECK_DEADLOCK FALSE
