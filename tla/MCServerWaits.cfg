SPECIFICATION WaitsSpec
CONSTANTS
    Urls = {u1, u2}
    NoUrl = NoUrl
    MaxMoves = 5
    Pages = {p1, p2, p3}
    NoPage = NoPage
    MaxItems = 2
CHECK_DEADLOCK FALSE
INVARIANTS
    EndedHoldsNothing
    EventsReachCaller
PROPERTIES
    ImplementsChargeOutcome
    EverythingEnds
