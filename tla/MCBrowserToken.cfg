SPECIFICATION Spec
CONSTANTS
    Calls = {c1}
    NoCall = NoCall
    HasShareableKey = TRUE
    MaxAttempts = 2
INVARIANTS
    SentOnOwnToken
