SPECIFICATION FairSpec
CONSTANTS
    MaxMounts = 2
    MaxAttempts = 2
CHECK_DEADLOCK FALSE
INVARIANTS
    SessionOwned
    ChargesMounted
PROPERTIES
    ImplementsChargeFlow
    FormEnds
