SPECIFICATION ServerSpec
CONSTANTS
    Methods = {m1, m2, m3}
    Given = {own}
    Nobody = Nobody
    Calls = {c1, c2}
    NoCall = NoCall
    HasShareableKey = TRUE
    MaxAttempts = 2
CHECK_DEADLOCK FALSE
INVARIANTS
    TokenOfClient
    OneIdPerCall
PROPERTIES
    ServerCallsSettle
