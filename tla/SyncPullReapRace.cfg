SPECIFICATION Spec
CONSTANTS
    Row = {1, 2, 3}
    NumEntity = 1
    EntityOf <- LongStream
    PageLimit = 3
    InitialView <- SeesAll
    AllowFull = FALSE
    Disturbance = {"view", "failure", "answer"}
    MaxSeq = 5
    MaxOpen = 2
    MaxFaults = 0
INVARIANTS ReapedRowsAreDetected
