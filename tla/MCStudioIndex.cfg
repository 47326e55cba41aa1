\* Two requests of the server and one of a command line, a fact, one crash.
SPECIFICATION IndexSpec
CONSTANTS
    r1 = r1
    r2 = r2
    r3 = r3
    server = server
    cli = cli
    Requests = {r1, r2, r3}
    Processes = {server, cli}
    Of <- MCOf
    MaxWrites = 1
    MaxCrashes = 1
INVARIANTS
    IndexTypeOK
    AnswersAreCurrent
PROPERTY
    RequestsEnd
CHECK_DEADLOCK FALSE
