SPECIFICATION Spec
CONSTANTS
    m1 = m1
    m2 = m2
    Member = {m1}
    Family = {m1}
    Event = event
    MaxEdits = 3
    MaxHalts = 0
    MaxOthers = 0
INVARIANTS UpdatesNotLost
