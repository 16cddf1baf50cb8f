SPECIFICATION Spec
CONSTANTS
    Users = {u1}
    Secrets = {s1, s2}
    Logins = {l1, l2}
    Requests = {r1, r2}
    NoUser = NoUser
    NoSecret = NoSecret
    NoLogin = NoLogin
    NoKey = NoKey
    NoRequest = NoRequest
SYMMETRY Symmetry
CHECK_DEADLOCK FALSE
INVARIANTS SecondFactor ConfirmedUnlessOvertaken
PROPERTIES SingleUse
