SPECIFICATION LiveSpec
CONSTANTS
    Message = {m1}
    Member = {ann, bob}
    Proc = {p1, p2}
    MaxAttempts = 2
    BatchLimit = 2
    Audience <- AllOrNone
    Delivery <- AnyDelivery
    Preference <- NoPreference
    AddressMayGo = FALSE
    SlowRequests = FALSE
    MaxFaults = 0
PROPERTIES SendsCompleteApart QueueEmpties
CHECK_DEADLOCK FALSE
