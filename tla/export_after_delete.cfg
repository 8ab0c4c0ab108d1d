SPECIFICATION PortSpec
CONSTANTS
    storeA = storeA
    storeB = storeB
    u1 = u1
    u2 = u2
    s1 = s1
    e1 = e1
    Stores = {storeA, storeB}
    Users = {u1, u2}
    SessionIds = {s1}
    EventIds = {e1}
    NoSession = NoSession
    MaxCalls = 3
    MaxImports = 1
INVARIANTS
    DeletedMemoriesMove
CHECK_DEADLOCK FALSE
