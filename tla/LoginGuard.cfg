SPECIFICATION Spec
CONSTANTS
    r1 = r1
    r2 = r2
    ch1 = ch1
    sl1 = sl1
    pr1 = pr1
    ca1 = ca1
    Requests <- TwoRequests
    Challenges <- OneChallenge
    Sliders <- OneSlider
    Proofs <- OneProof
    Captchas <- OneCaptcha
    Subjects <- ThreeSubjects
    Threshold = 1
    MaxWrong = 1
    MaxFaults = 1
SYMMETRY Symmetry
INVARIANTS
    Inv
    PassesAreEarned
    FreeTriesAreBounded
