SPECIFICATION SearchSpec
CONSTANTS
    w1 = w1
    w2 = w2
    k1 = k1
    Profiles <- MCProfiles
    Limits = {1, 2}
    Caps = {0, 1}
    Thresholds <- MCThresholds
    CandidateMult = 2
    RerankMult = 2
    RrfK = 1
    Unit = 24
    Verdicts <- MCVerdicts
    MemoryRows <- MCRows
    Expressions <- MCExpressions
    CallScopes <- MCCallScopes
    Weavers = {w1, w2}
    Walkers = {k1}
    Graphs <- MCGraphs
    Mentions <- MCMentions
    Queries <- MCQueries
    Depths = {1, 2}
    NameCap = 2
    MaxSpread = 3
    MaxWeaves = 2
    MaxWalks = 1
    MaxMisses = 1
    Todays <- MCTodays
    Counts = {1, 2, 13}
    NoDate = NoDate
    g1 = g1
    g2 = g2
    Guests = {g1, g2}
    Stock <- MCStock
    MaxAsks = 2
    MaxPanics = 1
    MaxRows = 5
    MaxDeleted = 2
    Stocks = {3, 4}
    PageSizes = {1, 2, 3}
    Budgets = {0, 1, 2, 3, 4, 5}
    s1 = s1
    u1 = u1
    u2 = u2
    e1 = e1
    e2 = e2
    e3 = e3
    b1 = b1
    Workers = {w1, w2}
    Sessions = {s1}
    Users = {u1, u2}
    EventIds = {e1, e2, e3}
    Bodies = {b1}
    Requests <- MCRequests
    Ingests <- MCIngests
    NoUser = NoUser
    NoSession = NoSession
    NoRow = NoRow
    ShortBatches = FALSE
    MaxAppends = 2
    MaxCompacts = 1
    MaxFaults = 0
    MaxRemovals = 2
    NotesCap = 1
SYMMETRY MCAlike
INVARIANTS
    BetterComesFirst
    FilterMeansWhatItSays
    WalksFollowTheGraph
    RangesAreCalendar
    PetsStayApart
    ReadsAreWhole
    QuietErasureHolds
    NoTornDigests
PROPERTIES
    OthersKeepTheirEvents
CHECK_DEADLOCK FALSE
