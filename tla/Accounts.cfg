SPECIFICATION Spec
CONSTANTS
    r1 = r1
    r2 = r2
    s1 = s1
    s2 = s2
    s3 = s3
    p1 = p1
    p2 = p2
    ann = ann
    bob = bob
    None = None
    Requests <- TwoRequests
    Slots <- TwoSlots
    Passwords <- TwoPasswords
    Names <- OneName
    MaxVersion = 3
SYMMETRY Symmetry
INVARIANTS
    Inv
    HoldersKnowPassword
    FirstLoginUntilOwnPassword
CHECK_DEADLOCK FALSE
