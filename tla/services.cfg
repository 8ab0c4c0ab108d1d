SPECIFICATION ServicesSpec
CONSTANTS
    w1 = w1
    w2 = w2
    s1 = s1
    u1 = u1
    u2 = u2
    e1 = e1
    e2 = e2
    b1 = b1
    b2 = b2
    Workers = {w1, w2}
    Sessions = {s1}
    Users = {u1, u2}
    EventIds = {e1, e2}
    Bodies = {b1, b2}
    Requests <- MCRequests
    NoUser = NoUser
    NoSession = NoSession
    NoRow = NoRow
    NotesCap = 1
    ShortBatches = FALSE
    MaxAppends = 2
    MaxCompacts = 2
    MaxFaults = 0
    d1 = d1
    d2 = d2
    mine = mine
    foreign = foreign
    c1 = c1
    c2 = c2
    Writes = {d1, d2}
    Names = {mine, foreign}
    Clients = {c1, c2}
    Foreign = {foreign}
    NoFile = NoFile
    NoName = NoName
    MaxRestores = 2
    MaxFileErrors = 2
    MaxCrashes = 1
    caller1 = caller1
    ep1 = ep1
    ep2 = ep2
    ann = ann
    bob = bob
    Callers = {caller1}
    Episodes = {ep1, ep2}
    Gone = {}
    Mentions <- MCMentions
    BatchSize = 1
    NoEpisode = NoEpisode
    MaxRuns = 2
    MaxErrors = 2
    MaxRetries = 3
    Attempts = 3
    Texts = 5
    ChunkSize = 2
    MaxConcurrent = 2
    Tries = 2
    i1 = i1
    i2 = i2
    ka = ka
    kb = kb
    ea = ea
    eb = eb
    Setters = {c1, c2}
    Importers = {i1, i2}
    Settings <- MCSettings
    Nobody = Nobody
    Unset = Unset
    MaxSets = 3
    MaxEnds = 2
    g1 = g1
    g2 = g2
    Guests = {g1, g2}
    Stock <- MCStock
    MaxAsks = 2
    MaxPanics = 1
    BufferSize = 2
    MaxLogged = 4
    MaxAddErrors = 2
INVARIANTS
    RestoreKeepsData
    RetriesDoNotMultiply
    VectorsKeepOrder
    ConfigAgrees
    OneImportAtATime
    LoggedIsStored
PROPERTIES
    TakenIsProcessed
    RestoreIsAnswered
    MeditationEnds
    CallsAreAnswered
CHECK_DEADLOCK FALSE
