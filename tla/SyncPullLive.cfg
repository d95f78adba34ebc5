SPECIFICATION LiveSpec
CONSTANTS
    Row = {1, 2}
    NumEntity = 1
    EntityOf <- OneStream
    PageLimit = 1
    InitialView <- SeesAll
    AllowFull = TRUE
    Disturbance = {"view"}
    MaxSeq = 4
    MaxOpen = 1
    MaxFaults = 1
INVARIANTS RefetchReconciles
PROPERTIES CatchesUp CompletedWalkIsCurrent
