SPECIFICATION ErasureSpec
CONSTANTS
    w1 = w1
    w2 = w2
    s1 = s1
    u1 = u1
    u2 = u2
    e1 = e1
    e2 = e2
    e3 = e3
    b1 = b1
    Workers = {w1, w2}
    Sessions = {s1}
    Users = {u1, u2}
    EventIds = {e1, e2, e3}
    Bodies = {b1}
    Requests <- MCRequests
    Ingests <- NoIngests
    NoUser = NoUser
    NoSession = NoSession
    NoRow = NoRow
    ShortBatches = FALSE
    MaxAppends = 2
    MaxCompacts = 1
    MaxFaults = 0
    MaxRemovals = 2
    NotesCap = 1
INVARIANTS
    ErasureHolds
CHECK_DEADLOCK FALSE
