SPECIFICATION MemorySpec
CONSTANTS
    t1 = t1
    t2 = t2
    home = home
    office = office
    hut = hut
    storeA = storeA
    storeB = storeB
    u1 = u1
    u2 = u2
    s1 = s1
    e1 = e1
    c1 = c1
    c2 = c2
    ep1 = ep1
    ep2 = ep2
    ann = ann
    bob = bob
    r1 = r1
    r2 = r2
    Threads = {t1, t2}
    Contents = {home, office, hut}
    Batches <- MCBatches
    Near <- MCNear
    Corrects <- MCCorrects
    EventTexts = {}
    Locked = {hut}
    LocalOnly = {hut}
    MaxMemories = 1
    None = None
    MaxOps = 3
    MaxPolls = 1
    MaxFaults = 1
    MaxIds = 2
    MaxTime = 1
    Stores = {storeA, storeB}
    Users = {u1, u2}
    SessionIds = {s1}
    EventIds = {e1}
    NoSession = NoSession
    MaxCalls = 3
    MaxImports = 1
    Callers = {c1, c2}
    Episodes = {ep1, ep2}
    Gone = {ep2}
    Mentions <- MCMentions
    BatchSize = 1
    NoEpisode = NoEpisode
    MaxRuns = 2
    MaxErrors = 1
    RowIds = {1}
    Columns <- MCColumns
    Rebuilders = {r1, r2}
    MaxEdits = 3
    MaxDeaths = 2
    q1 = q1
    q2 = q2
    ma = ma
    mb = mb
    Memories = {ma, mb}
    Searchers = {q1, q2}
    Plain = {mb}
    Linked = {ma}
    QueueCap = 1
    MaxSearches = 2
    MaxChanges = 1
    MaxLosses = 1
SYMMETRY MCAlike
INVARIANTS
    NoTwins
    NothingLost
    LocalOnlyStays
    SupersededByLater
    DeferredAccounted
    Portable
    MeditatedIsStored
    OneMeditation
    IndexesFollow
    RecallIsScoped
    AccessesAreCounted
PROPERTIES
    ImportIsWhole
CHECK_DEADLOCK FALSE
