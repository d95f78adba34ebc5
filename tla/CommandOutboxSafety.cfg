SPECIFICATION LiveSpec
CONSTANTS
    m1 = m1
    m2 = m2
    Member = {m1, m2}
    Family = {m1}
    Event = event
    MaxEdits = 3
    MaxHalts = 2
    MaxOthers = 1
INVARIANTS TypeOK AloneLossesAreKnown OnlyOvertakenUpdatesLost
PROPERTIES FailuresAreKept QueueDrains
