\* The command line and a browser at one bundle, four events, any crashes.
SPECIFICATION Spec
CONSTANTS
    Doors = {"cli", "server"}
    STAGES <- MCStages
    MaxEvents = 4
    MaxOverrides = 1
INVARIANTS
    TypeOK
    HistoryIsSound
    RecordAgrees
CHECK_DEADLOCK FALSE
