SPECIFICATION Spec
CONSTANTS
    Users = {u1}
    Sids = {s1, s2}
    Requests = {r1, r2}
    NoUser = NoUser
    NoSid = NoSid
    MaxConcurrentSessions = 5
SYMMETRY Symmetry
CHECK_DEADLOCK FALSE
INVARIANTS TypeOK LogoutIsEffective ServedWhileLive ServedWhileActive
PROPERTIES NoSessionRevival
