SPECIFICATION Spec
CONSTANTS
    Ids = {i1, i2}
    Tenants = {t1}
    None = None
PROPERTIES ExpiredBeforeDecision
CHECK_DEADLOCK FALSE
