SPECIFICATION IndexSpec
CONSTANTS
    RowIds = {1}
    Columns = {"agent_id", "run_id"}
    Rebuilders = {"r", "s"}
    MaxEdits = 3
    MaxDeaths = 1
INVARIANTS
    WordsAreCurrent
CHECK_DEADLOCK FALSE
