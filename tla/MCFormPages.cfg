SPECIFICATION FormSpec
CONSTANTS
    Accounts = {ann, ben}
    MethodSets <- MCMethodSets
    Cooldown = 1
    NoAccount = NoAccount
    Visitors = {vic, wim}
    Nobody = Nobody
    Addresses = {x1, x2}
    NoAddress = NoAddress
    Credentials = {c1, c2}
    NoCredential = NoCredential
CHECK_DEADLOCK FALSE
SYMMETRY Symmetry
INVARIANTS
    PanelsNameAddress AnnouncedIsDone SecretOfThisLogin GivenUpStaysOut
    SignedInWhole ShownOnce KeysAreListed
PROPERTIES KeptUntilPutAway
