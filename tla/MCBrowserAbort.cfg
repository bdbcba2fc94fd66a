SPECIFICATION BrowserSpec
CONSTANTS
    Urls = {u1}
    NoUrl = NoUrl
    Insecure = {}
    MaxMoves = 2
    MaxLeaves = 1
CHECK_DEADLOCK FALSE
INVARIANTS
    AbortHeard
