SPECIFICATION Spec
CONSTANTS
    w1 = w1
    w2 = w2
    s1 = s1
    u1 = u1
    u2 = u2
    e1 = e1
    e2 = e2
    b1 = b1
    b2 = b2
    Workers = {w1, w2}
    Sessions = {s1}
    Users = {u1, u2}
    EventIds = {e1, e2}
    Bodies = {b1, b2}
    Requests <- MCRequests
    NoUser = NoUser
    NoSession = NoSession
    NoRow = NoRow
    NotesCap = 2
    ShortBatches = FALSE
    MaxAppends = 2
    MaxCompacts = 2
    MaxFaults = 1
INVARIANTS
    SummaryTellsOwnEvents
CHECK_DEADLOCK FALSE
