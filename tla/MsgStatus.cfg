SPECIFICATION Spec
CONSTANTS
    r1 = r1
    r2 = r2
    ann = ann
    bob = bob
    m1 = m1
    m2 = m2
    Requests <- TwoRequests
    Users <- OneUser
    Messages <- TwoMessages
    MaxTime = 3
    KnownTargets = TRUE
SYMMETRY Symmetry
INVARIANTS
    Inv
    StatusIsAccurate
    AnswerWasTrue
CHECK_DEADLOCK FALSE
