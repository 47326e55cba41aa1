\* Two command lines, a crate that comes back and a strange one, one crash.
SPECIFICATION Spec
CONSTANTS
    Doors = {d1, d2}
    Intakes = {"back", "odd"}
    Slugs = {"home", "fresh"}
    Home = "home"
    Payloads = {"ours", "theirs"}
    Payload <- MCPayload
    HomePayload = "ours"
    MaxRequests = 3
    MaxCrashes = 1
SYMMETRY DoorSymmetry
INVARIANTS
    TypeOK
    CratesLeaveOnce
    RoutedBundlesAreWhole
CHECK_DEADLOCK FALSE
