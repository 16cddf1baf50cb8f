SPECIFICATION EmailSpec
CONSTANTS
    Users = {u1}
    Links = {l1, l2}
    Requests = {r1, r2, r3}
    NoUser = NoUser
    NoLink = NoLink
    Holders = {h1}
    Passwords = {p1, p2}
    Attempts = {a1, a2}
    NoHolder = NoHolder
    NoPassword = NoPassword
    Absent = Absent
    MaxGuesses = 20
SYMMETRY Symmetry
CHECK_DEADLOCK FALSE
INVARIANTS FailedSendIsDead RefusedForCause GuessesAreBounded CredentialsHeld
PROPERTIES SingleUse LockHolds
