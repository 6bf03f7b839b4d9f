SPECIFICATION Spec
CONSTANTS
    Ids = {i1}
    Handlers = {h1}
    Values = {v1, v2}
    Gone = Gone
    None = None
    MaxWrites = 0
    MaxFaults = 0
INVARIANTS ApprovalExecutes
CHECK_DEADLOCK FALSE
