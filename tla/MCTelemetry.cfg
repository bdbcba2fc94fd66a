SPECIFICATION TelemetrySpec
CONSTANTS
    Budget <- MCBudget
    MaxSDKs = 2
    Traffic = {"walletStep", "attach"}
    Fields = {pan, cvv}
    Errors = {e1, e2}
    Junk = {junk}
    MaxVisits = 3
    Heights = {1, 2, 3}
    Window = 2
    MaxMessages = 6
    MaxTime = 3
    Chunks <- MCChunks
    MaxChunks = 4
    MaxPath = 6
    MinSegment = 1
    MaxDepth = 4
CHECK_DEADLOCK FALSE
INVARIANTS
    LeaveTold
    GapsExplained
    FormReported
    OscillationTold
    TextScrubbed
