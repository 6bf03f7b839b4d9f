SPECIFICATION FaultySpec
CONSTANTS
    Ids = {a1, a2}
    Threads = {mcp, dash}
    Storers = {mcp}
    MaxCacheSize = 1
    MaxDecisions = 1
    MaxErrors = 1
    MaxRestarts = 2
    Absent = Absent
    Newline = Newline
CHECK_DEADLOCK FALSE
INVARIANTS
    NoInventedDecision
    NoResurrection
    UndecidedSurvive
