SPECIFICATION RefetchingSpec
CONSTANTS
    Row = {1, 2, 3}
    NumEntity = 1
    EntityOf <- LongStream
    PageLimit = 1
    InitialView <- SeesAll
    AllowFull = TRUE
    Disturbance = {"view", "failure", "answer"}
    MaxSeq = 4
    MaxOpen = 1
    MaxFaults = 0
PROPERTIES NoLoopOn410
