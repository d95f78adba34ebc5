SPECIFICATION LiveSpec
CONSTANTS
    Message = {m1}
    Member = {ann, bob}
    Proc = {p1}
    MaxAttempts = 2
    BatchLimit = 2
    Audience <- AllOrNone
    Delivery <- Immediate
    Preference <- NoPreference
    AddressMayGo = TRUE
    SlowRequests = FALSE
    MaxFaults = 1
PROPERTIES EverySendCompletes
CHECK_DEADLOCK FALSE
