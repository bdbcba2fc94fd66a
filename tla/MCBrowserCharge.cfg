SPECIFICATION BrowserSpec
CONSTANTS
    Urls = {u1, u2, http}
    NoUrl = NoUrl
    Insecure = {http}
    MaxMoves = 3
    MaxLeaves = 2
CHECK_DEADLOCK FALSE
INVARIANTS
    SettledIsStopped
PROPERTIES
    StallMeansStayed
    RedirectsEnd
