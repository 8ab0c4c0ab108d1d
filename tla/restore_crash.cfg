SPECIFICATION RestoreSpec
CONSTANTS
    d1 = d1
    d2 = d2
    mine = mine
    foreign = foreign
    c1 = c1
    c2 = c2
    Writes = {d1, d2}
    Names = {mine, foreign}
    Clients = {c1, c2}
    Foreign = {foreign}
    NoFile = NoFile
    NoName = NoName
    MaxRestores = 1
    MaxFileErrors = 0
    MaxCrashes = 1
INVARIANTS
    ServesOldOrNew
CHECK_DEADLOCK FALSE
