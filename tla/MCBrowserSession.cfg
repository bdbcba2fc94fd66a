SPECIFICATION FairSpec
CONSTANTS
    Calls = {c1, c2}
    NoCall = NoCall
    HasShareableKey = TRUE
    MaxAttempts = 2
INVARIANTS
    SessionAgrees
    DetachedHoldsNothing
    SingleRefresh
    RetryOnOwnToken
PROPERTIES
    FailureCostsTheTokenOnly
    ImplementsPaymentSession
    EverythingSettles
