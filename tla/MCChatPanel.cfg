\* A panel, two sessions, a message, a request, two lost connections or restarts.
SPECIFICATION PanelSpec
CONSTANTS
    p1 = p1
    Panels = {p1}
    Other = Other
    None = None
    MaxSessions = 2
    MaxTyped = 1
    MaxAsks = 1
    MaxDrops = 2
INVARIANTS
    PanelTypeOK
    PanelIsRight
PROPERTY
    StarterSeesSession
CHECK_DEADLOCK FALSE
