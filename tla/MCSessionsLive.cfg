SPECIFICATION FairSpec
CONSTANTS
    Users = {u1}
    Sids = {s1}
    Requests = {r1, r2}
    NoUser = NoUser
    NoSid = NoSid
    MaxConcurrentSessions = 5
CHECK_DEADLOCK FALSE
PROPERTIES SuspensionTakesHold
