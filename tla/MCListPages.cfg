SPECIFICATION ListSpec
CONSTANTS
    Keys = {k1, k2}
    Orgs = {o1, o2}
    Members = {m1}
    None = None
    MaxUserRequests = 2
    Tenants = {t1, t2}
    Items = {i1, i2}
    NoItem = NoItem
    MaxRequests = 2
    Owners = {w1, w2}
    Providers = {p1, p2}
    NoProvider = NoProvider
    MaxSocialRequests = 2
CHECK_DEADLOCK FALSE
SYMMETRY Symmetry
INVARIANTS ListsAreTrue SentForItsTarget OneActive
