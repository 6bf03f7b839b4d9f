SPECIFICATION FairSpec
CONSTANTS
    Requests = {r}
    Servers = {s}
    Handlers = {h}
    CacheSize = 2
    MaxDirect = 1
    MaxErrors = 1
    MaxRestarts = 1
    Newline = Newline
    Cut = Cut
    None = None
INVARIANTS TypeOK NothingLoggedVanishes TreesAreFamilies TrailTrue
PROPERTIES DecisionsRecorded
CHECK_DEADLOCK FALSE
