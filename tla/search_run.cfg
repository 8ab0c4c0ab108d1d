SPECIFICATION RecallSpec
CONSTANTS
    Memories = {ma, mb}
    Searchers = {q1}
    Plain = {mb}
    Linked = {ma}
    QueueCap = 1
    MaxSearches = 2
    MaxChanges = 0
    MaxLosses = 0
INVARIANTS
    SearchStaysInItsRun
CHECK_DEADLOCK FALSE
