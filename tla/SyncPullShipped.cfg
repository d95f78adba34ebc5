SPECIFICATION LiveSpec
CONSTANTS
    Row = {1, 2}
    NumEntity = 1
    EntityOf <- OneStream
    PageLimit = 2
    InitialView <- SeesAll
    AllowFull = FALSE
    Disturbance = {"view", "failure", "answer"}
    MaxSeq = 4
    MaxOpen = 1
    MaxFaults = 0
PROPERTIES Gone410LeadsToRefetch
