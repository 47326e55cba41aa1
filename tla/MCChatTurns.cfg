\* Both kinds of adapter, four typed messages.
SPECIFICATION FairSpec
CONSTANTS
    MaxMessages = 4
    Adapters = {"folds", "answers"}
INVARIANTS
    TypeOK
    TurnsAreSound
PROPERTIES
    DeliverySpec
    FlushedAtBoundary
CHECK_DEADLOCK FALSE
