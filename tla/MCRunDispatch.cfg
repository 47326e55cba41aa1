\* A skill of three fixtures and one of a single fixture, on the default two slots.
SPECIFICATION FairSpec
CONSTANTS
    MaxConcurrent = 2
    Skills = {"design", "review"}
    Cases <- MCCases
    MaxRuns = 4
INVARIANTS
    TypeOK
    DispatchIsSound
PROPERTIES
    PoolSpec
    RunsAndSweepsEnd
CHECK_DEADLOCK FALSE
