SPECIFICATION PhoneSpec
CONSTANTS
    Numbers = {n1, n2}
    NoNumber = NoNumber
    MaxUnderWay = 2
INVARIANT RightCodeIsAccepted
CHECK_DEADLOCK FALSE
