SPECIFICATION FairSpec
CONSTANTS
    Ids = {i1}
    Handlers = {h1, h2}
    Values = {v1, v2}
    Gone = Gone
    None = None
    MaxWrites = 1
    MaxFaults = 1
INVARIANTS TypeOK ExecutedAtMostOnce OnlyApprovedExecute SuccessWasExecuted
PROPERTIES StaleDetected AnswersForward EveryApprovalAnswered
CHECK_DEADLOCK FALSE
