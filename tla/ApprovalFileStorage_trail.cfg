SPECIFICATION Spec
CONSTANTS
    Ids = {a1, a2}
    Threads = {mcp, dash}
    Storers = {mcp}
    MaxCacheSize = 1
    MaxDecisions = 4
    MaxErrors = 0
    MaxRestarts = 0
    Absent = Absent
    Newline = Newline
CHECK_DEADLOCK FALSE
INVARIANT AuditTrailIntact
