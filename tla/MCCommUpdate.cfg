SPECIFICATION CommSpec
CONSTANTS
    Tenants = {t1}
    Items = {i1, i2}
    NoItem = NoItem
    MaxRequests = 2
INVARIANT UpdateWasSent
CHECK_DEADLOCK FALSE
