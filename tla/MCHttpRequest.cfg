SPECIFICATION RequestsSpec
CONSTANTS
    Calls = {1, 2}
    NoCall = 0
    Methods <- MCMethods
    MaxLength = 3
CHECK_DEADLOCK FALSE
INVARIANTS
    SentOnce
    ReportedOnce
    NamedEndpoint
PROPERTIES
    StoppedSendsNothing
    CallsEnd
