SPECIFICATION Spec
CONSTANTS
    Users = {u1}
    Codes = {c1}
    Requests = {r1, r2}
    NoUser = NoUser
    NoCode = NoCode
SYMMETRY Symmetry
CHECK_DEADLOCK FALSE
INVARIANTS BurnedIsDead
PROPERTIES RefusedForCause SingleUse
