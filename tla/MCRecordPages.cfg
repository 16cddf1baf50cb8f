SPECIFICATION RecordSpec
CONSTANTS
    Numbers = {n1, n2}
    NoNumber = NoNumber
    MaxUnderWay = 2
    Secrets = {s1, s2}
    NoSecret = NoSecret
    MaxLeft = 1
    Firms = {f1, f2}
    Values = {v1, v2}
    NoForm = NoForm
    Accounts = {a1, a2}
    Hosts = {h1, h2}
    Staff = Staff
    NoOne = NoOne
    MaxCalls = 2
CHECK_DEADLOCK FALSE
SYMMETRY Symmetry
INVARIANTS
    RecordsAreCurrent VerifiedByItsCode SecretShownIsOpen
    SavedForItsOwn UntouchedIsCurrent RoleOfHost
