SPECIFICATION Spec
CONSTANTS
    Row = {1, 2}
    NumEntity = 2
    EntityOf <- OneStream
    PageLimit = 1
    InitialView <- SeesAll
    AllowFull = TRUE
    Disturbance = {"failure", "answer"}
    MaxSeq = 4
    MaxOpen = 2
    MaxFaults = 1
INVARIANTS TypeOK NothingMissed OnlyRacedReapsEscape RefetchReconciles
