SPECIFICATION Spec
CONSTANTS
    Message = {m1}
    Member = {ann, bob}
    Proc = {p1, p2}
    MaxAttempts = 2
    BatchLimit = 2
    Audience <- AllOrNone
    Delivery <- AnyDelivery
    Preference <- NoPreference
    AddressMayGo = TRUE
    SlowRequests = TRUE
    MaxFaults = 1
INVARIANTS TypeOK SentMeansDrained AlertedOnce
PROPERTIES NeverRequeued
CHECK_DEADLOCK FALSE
