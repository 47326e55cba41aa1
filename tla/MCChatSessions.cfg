\* Three sessions on two providers, a model to choose besides the default, a
\* crash at any time; starts and ends overlap freely.
SPECIFICATION FairSpec
CONSTANTS
    MaxChats = 3
    Providers = {"claude", "codex"}
    Models = {"opus"}
INVARIANTS
    TypeOK
    SessionsAreKept
PROPERTIES
    EndedAdapterExits
CHECK_DEADLOCK FALSE
