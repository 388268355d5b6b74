SPECIFICATION Spec
CONSTANTS
    r1 = r1
    r2 = r2
    c1 = c1
    c2 = c2
    Requests <- TwoRequests
    Captchas <- OneCaptcha
    Threshold = 1
    LockThreshold = 2
    FailureTTL = 1
    CaptchaTTL = 1
    MaxTime = 2
    MaxVersion = 2
    MaxFaults = 1
SYMMETRY Symmetry
INVARIANTS Inv TriesAreBounded FreeTriesAreBounded CaptchaIsSpentOnce
