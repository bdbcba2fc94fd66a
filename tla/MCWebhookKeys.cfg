SPECIFICATION WebhooksSpec
CONSTANTS
    Webhooks = {w1, w2}
    Kids = {old, new, forged}
    Signing = {old, new}
    RefetchInterval = 2
    MaxAge = 3
    MaxTime = 4
    MaxRotations = 1
    MaxParts = 4
CHECK_DEADLOCK FALSE
INVARIANTS
    LoadsAreSpaced
    OldKeysAreRefreshed
    RefusedAfterLoad
    OnlyGenuineAccepted
PROPERTIES
    WebhooksAnswered
