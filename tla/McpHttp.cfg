SPECIFICATION FairSpec
CONSTANTS
    Clients = {c1, c2, c3}
    Tokens = {t1, t2}
    Served = {t1}
    Capacity = 1
    MaxPosts = 3
    None = None
INVARIANTS TypeOK AnswersBelong ExecutedUnderOwnToken FirstComeFirstServed CallsAreAnswered
PROPERTIES NobodyWaitsForever
CHECK_DEADLOCK FALSE
